---- MODULE Spec2Model ----
(***************************************************************************)
(* Model of the ical_feed integration: the HTTP view that serves a feed,   *)
(* its per-feed cache, the conditional-request evaluator, the access       *)
(* resolver and the config-entry lifecycle (setup, update, unload).        *)
(*                                                                         *)
(* Text values are sequences of one-character strings.  A rendered payload *)
(* is the sequence of its lines (joined by CRLF in the code); a line is a  *)
(* pair <<property name, value text>>.  A SHA-256 hex digest is modelled   *)
(* as an injective tagging of the hashed value.                            *)
(***************************************************************************)
EXTENDS Integers, Sequences, FiniteSets, TLC

VARIABLES entries, cache, calendarEvents, monotonic, utcnow, requests, last,
          writes, opCount, requestCount, call, registry, issues, listeners,
          secretCount, revoked, unloaded, tracker

vars == <<entries, cache, calendarEvents, monotonic, utcnow, requests, last,
          writes, opCount, requestCount, call, registry, issues, listeners,
          secretCount, revoked, unloaded, tracker>>

\* The entity registry, the repair issues and the registry listeners; the
\* secrets generated, the secrets a rotation replaced and the secrets of the
\* feeds that were unloaded.
platformVars == <<registry, issues, listeners, tracker>>
flowVars == <<secretCount, revoked, unloaded>>

(***************************************************************************)
(* Bounds of the model.                                                    *)
(***************************************************************************)
MaxOps == 2
MaxRequests == 2
MaxUtc == 1
MaxMonotonicSteps == 2

(***************************************************************************)
(* Program constants.                                                      *)
(***************************************************************************)
_CACHE_TTL == 30
DEFAULT_PAST_DAYS == 7
DEFAULT_FUTURE_DAYS == 30

HTTP_OK == 200
HTTP_NOT_MODIFIED == 304
HTTP_NOT_FOUND == 404

ICAL_CONTENT_TYPE == "text/calendar"
CACHE_CONTROL == "private, max-age=0, must-revalidate"

\* The monotonic clock advances in steps of half the TTL, so that an entry
\* is seen strictly before, exactly at and after its expiry.
MonotonicStep == _CACHE_TTL \div 2

(***************************************************************************)
(* Small universes the inputs are drawn from.                              *)
(***************************************************************************)
EntryIds == {<<"1">>, <<"2">>}
CalendarIds == {"calendar.a", "calendar.b"}
Requests == {"r1", "r2"}

\* hass.data[calendar.DATA_COMPONENT]: the calendar entities that exist.
component == {"calendar.a", "calendar.b"}

(***************************************************************************)
(* Generic helpers.                                                        *)
(***************************************************************************)
\* Python's "x or default" / Optional: <<>> is None, <<v>> is a value.
None == <<>>
Some(v) == <<v>>

RECURSIVE ReplaceAll(_, _, _)
\* str.replace(old, new) for a one-character old.
ReplaceAll(text, old, new) ==
    IF text = <<>> THEN <<>>
    ELSE (IF Head(text) = old THEN new ELSE <<Head(text)>>)
         \o ReplaceAll(Tail(text), old, new)

RECURSIVE FilterSeq(_, _)
\* The elements of seq that are in set, in order.
FilterSeq(seq, set) ==
    IF seq = <<>> THEN <<>>
    ELSE (IF Head(seq) \in set THEN <<Head(seq)>> ELSE <<>>)
         \o FilterSeq(Tail(seq), set)

RECURSIVE InsertSorted_unstable(_, _)
\* Mutant: an item goes before the items with its own key.
InsertSorted_unstable(sorted, x) ==
    IF sorted = <<>> THEN <<x>>
    ELSE IF Head(sorted).key < x.key
         THEN <<Head(sorted)>> \o InsertSorted_unstable(Tail(sorted), x)
         ELSE <<x>> \o sorted

RECURSIVE InsertSorted(_, _)
\* Insert item x (a record with a key) after every element whose key is
\* <= its own, so that equal keys keep their input order.
InsertSorted(sorted, x) ==
    IF sorted = <<>> THEN <<x>>
    ELSE IF Head(sorted).key <= x.key
         THEN <<Head(sorted)>> \o InsertSorted(Tail(sorted), x)
         ELSE <<x>> \o sorted

RECURSIVE StableSort(_)
\* list.sort(key=...) over items that carry their key: ascending, stable.
StableSort(seq) ==
    IF seq = <<>> THEN <<>>
    ELSE InsertSorted(StableSort(SubSeq(seq, 1, Len(seq) - 1)), seq[Len(seq)])

RECURSIVE Flatten(_)
Flatten(seqs) ==
    IF seqs = <<>> THEN <<>> ELSE Head(seqs) \o Flatten(Tail(seqs))

\* Lexicographic rank of the calendar ids (Python compares the strings).
CalendarRank(c) ==
    IF c = "Calendar.a" THEN 0 ELSE IF c = "calendar.a" THEN 1 ELSE 2

(***************************************************************************)
(* util.py                                                                 *)
(***************************************************************************)
Letters == {"a", "b", "i", "c", "l", "f", "e", "d"}
Lower(ch) == IF ch = "A" THEN "a" ELSE IF ch = "B" THEN "b" ELSE ch
IsAlnum(ch) == Lower(ch) \in Letters \/ ch \in {"1", "2"}

RECURSIVE SlugChars(_)
\* Lower-cased alphanumerics; every run of other characters is a separator.
SlugChars(text) ==
    IF text = <<>> THEN <<>>
    ELSE LET rest == SlugChars(Tail(text))
         IN  IF IsAlnum(Head(text)) THEN <<Lower(Head(text))>> \o rest
             ELSE IF rest = <<>> \/ Head(rest) = "_" THEN rest
             ELSE <<"_">> \o rest

\* homeassistant.util.slugify: "" stays "", an empty slug becomes "unknown".
UNKNOWN_SLUG == <<"u", "n", "k", "n", "o", "w", "n">>
slugify(text) ==
    IF text = <<>> THEN <<>>
    ELSE LET s == SlugChars(text)
             t == IF s # <<>> /\ Head(s) = "_" THEN Tail(s) ELSE s
         IN  IF t = <<>> THEN UNKNOWN_SLUG ELSE t

DEFAULT_SLUG_TITLE == <<"i", "c", "a", "l", "_", "f", "e", "e", "d">>

get_feed_slug(entry) ==
    LET title == IF entry.title # <<>> THEN entry.title ELSE DEFAULT_SLUG_TITLE
        slug == slugify(title)
    IN  IF slug = <<>> \/ slug = UNKNOWN_SLUG THEN entry.entry_id ELSE slug

\* The first position at which pattern occurs in text, or 0 (str.find + 1).
Find(text, pattern) ==
    LET hits == {i \in 1..(Len(text) - Len(pattern) + 1) :
                    SubSeq(text, i, i + Len(pattern) - 1) = pattern}
    IN  IF hits = {} THEN 0 ELSE CHOOSE i \in hits : \A k \in hits : i <= k

\* pattern in text
Contains(text, pattern) == pattern = <<>> \/ Find(text, pattern) # 0

RECURSIVE Split(_, _, _)
\* text.split(sep, maxsplit)
Split(text, sep, maxsplit) ==
    LET i == Find(text, sep)
    IN  IF maxsplit = 0 \/ i = 0 THEN <<text>>
        ELSE <<SubSeq(text, 1, i - 1)>>
             \o Split(SubSeq(text, i + Len(sep), Len(text)), sep, maxsplit - 1)

RECURSIVE Join(_, _)
\* sep.join(parts)
Join(parts, sep) ==
    IF parts = <<>> THEN <<>>
    ELSE IF Len(parts) = 1 THEN parts[1]
    ELSE parts[1] \o sep \o Join(Tail(parts), sep)

PUBLIC_FEED_PATH == <<"/", "i", "c", "a", "l">>
FEED_PATH == <<"/", "i", "c", "a", "l">>
ICAL_EXTENSION == <<".", "i", "c", "s">>

\* Mutant: the slug of the URL is always the slug of the title.
build_feed_url_title_slug(base_url, entry) ==
    base_url \o PUBLIC_FEED_PATH \o <<"/">> \o entry.secret \o <<"/">>
    \o slugify(entry.title) \o ICAL_EXTENSION

\* Lines 25-33; base_url is what _get_base_url returns ("" for none).
build_feed_url(base_url, entry) ==
    base_url \o PUBLIC_FEED_PATH \o <<"/">> \o entry.secret \o <<"/">>
    \o get_feed_slug(entry) \o ICAL_EXTENSION

\* The character U+2026.
ELLIPSIS == "ELLIPSIS"
MASK_MARKER == <<"/", "i", "c", "a", "l", "/">>
MASK_SHORT_SECRET == 6
MASK_SHOWN == 4

\* Lines 60-78.
mask_feed_url(url) ==
    IF url = <<>> THEN <<>>
    ELSE IF ~Contains(url, MASK_MARKER) THEN url
    ELSE LET halves == Split(url, MASK_MARKER, 1)
             prefix == halves[1]
             remainder == halves[2]
             parts == Split(remainder, <<"/">>, 2)
             secret == parts[1]
             masked_secret ==
                 IF Len(secret) <= MASK_SHORT_SECRET THEN <<"*", "*", "*">>
                 ELSE SubSeq(secret, 1, MASK_SHOWN) \o <<ELLIPSIS>>
                      \o SubSeq(secret, Len(secret) - MASK_SHOWN + 1,
                                Len(secret))
         IN  IF Len(parts) < 2 THEN url
             ELSE prefix \o MASK_MARKER
                  \o Join([parts EXCEPT ![1] = masked_secret], <<"/">>)

\* Lines 81-92: the arguments of the line that is logged.
log_feed_summary(entry, url, event_count) ==
    [entry_name |-> IF entry.title # <<>> THEN entry.title ELSE entry.entry_id,
     event_count |-> event_count,
     masked |-> mask_feed_url(url)]

REDACTED == <<"**REDACTED**">>

\* diagnostics.py, lines 17-29.
async_get_config_entry_diagnostics(base_url, entry) ==
    [entry_id |-> entry.entry_id, title |-> entry.title,
     data |-> [calendars |-> entry.calendars, past_days |-> entry.past_days,
               future_days |-> entry.future_days, secret |-> REDACTED],
     feed_url |-> mask_feed_url(build_feed_url(base_url, entry)),
     calendars |-> entry.calendars]

\* The path of a URL: what follows the scheme and the authority.
UrlPath(url) ==
    LET scheme == Find(url, <<":", "/", "/">>)
        rest == IF scheme = 0 THEN url ELSE SubSeq(url, scheme + 3, Len(url))
        slash == Find(rest, <<"/">>)
    IN  IF scheme = 0 THEN url
        ELSE IF slash = 0 THEN <<>>
        ELSE SubSeq(rest, slash, Len(rest))

\* The view's route, url = FEED_PATH + "/{secret}/{feed}" + ICAL_EXTENSION
\* (http.py:62): the two path parameters of a path that matches it, or None.
\* A parameter is a non-empty run of characters other than the slash.
MatchRoute(path) ==
    LET lead == FEED_PATH \o <<"/">>
        rest == SubSeq(path, Len(lead) + 1, Len(path))
        parts == Split(rest, <<"/">>, Len(rest))
        tail == parts[2]
        cut == Len(tail) - Len(ICAL_EXTENSION)
    IN  IF SubSeq(path, 1, Len(lead)) # lead \/ Len(path) < Len(lead)
        THEN None
        ELSE IF Len(parts) # 2 \/ parts[1] = <<>> THEN None
        ELSE IF cut < 1 \/ SubSeq(tail, cut + 1, Len(tail)) # ICAL_EXTENSION
        THEN None
        ELSE Some([secret |-> parts[1], feed |-> SubSeq(tail, 1, cut)])

(***************************************************************************)
(* http.py: event normalisation and rendering.                             *)
(*                                                                         *)
(* Instants are whole seconds of UTC.  An event's start or end is a record *)
(* [kind, t]: a datetime (t the instant), a date (t the day number), None, *)
(* a value of another shape, or missing (the event has no such attribute). *)
(***************************************************************************)
SecondsPerDay == 24 * 60 * 60
\* dt_util.DEFAULT_TIME_ZONE, as an offset from UTC in seconds.
DEFAULT_TIME_ZONE == 60 * 60

DateTimeValue(t) == [kind |-> "datetime", t |-> t]
DateValue(d) == [kind |-> "date", t |-> d]
NoValue == [kind |-> "none", t |-> 0]
OtherValue == [kind |-> "other", t |-> 0]
MissingValue == [kind |-> "missing", t |-> 0]

_ensure_datetime(value) ==
    IF value.kind = "none" THEN None
    ELSE IF value.kind = "datetime" THEN Some(value.t)
    ELSE IF value.kind = "date"
         THEN Some(value.t * SecondsPerDay - DEFAULT_TIME_ZONE)
    ELSE None

\* x or default, for an Optional x.
OrElse(opt, default) == IF opt = None THEN default ELSE opt[1]

\* strftime("%Y%m%dT%H%M%SZ") of the instant in UTC.
_format_datetime(t) == <<ToString(t), "Z">>

\* Mutant: the day is taken in UTC instead of the local time zone.
FormatLocalDate_utc(t) == <<ToString(t \div SecondsPerDay)>>

\* .date().strftime("%Y%m%d") of the local day that holds the instant.
FormatLocalDate(t) == <<ToString((t + DEFAULT_TIME_ZONE) \div SecondsPerDay)>>

\* str() of a start value, as interpolated into the uid source.
StrValue(value) ==
    IF value.kind = "none" THEN <<"None">>
    ELSE IF value.kind = "datetime" THEN <<"datetime", ToString(value.t)>>
    ELSE IF value.kind = "date" THEN <<"date", ToString(value.t)>>
    ELSE <<"other">>

\* Line 240 reads event.start without a default: the attribute lookup
\* raises AttributeError when the event has no uid and no start attribute.
FormatEventRaises(event) ==
    event.uid = <<>> /\ event.start.kind = "missing"

\* Mutant: the backslash is replaced last.
_escape_value_backslash_last(text) ==
    ReplaceAll(ReplaceAll(ReplaceAll(ReplaceAll(text,
        "\n", <<"\\", "n">>),
        ",", <<"\\", ",">>),
        ";", <<"\\", ";">>),
        "\\", <<"\\", "\\">>)

_escape_value(text) ==
    ReplaceAll(ReplaceAll(ReplaceAll(ReplaceAll(text,
        "\\", <<"\\", "\\">>),
        "\n", <<"\\", "n">>),
        ",", <<"\\", ",">>),
        ";", <<"\\", ";">>)

\* hashlib.sha256(text).hexdigest(), taken to be injective.
Sha256Hex(text) == <<"sha256">> \o text

_format_event(entity_id, event, now, summary_override) ==
    LET summary_attr == event.summary
        uid == IF event.uid # <<>> THEN event.uid
               ELSE Sha256Hex(<<entity_id, "-">> \o StrValue(event.start)
                              \o <<"-">> \o summary_attr)
        start_dt_value == OrElse(_ensure_datetime(event.start), now)
        end_dt_value == OrElse(_ensure_datetime(event.end), start_dt_value)
        dates == IF event.all_day
                 THEN << <<"DTSTART;VALUE=DATE", FormatLocalDate(start_dt_value)>>,
                         <<"DTEND;VALUE=DATE", FormatLocalDate(end_dt_value)>> >>
                 ELSE << <<"DTSTART", _format_datetime(start_dt_value)>>,
                         <<"DTEND", _format_datetime(end_dt_value)>> >>
        summary == OrElse(summary_override, event.summary)
    IN  << <<"BEGIN", <<"VEVENT">> >> >>
        \o dates
        \o << <<"DTSTAMP", _format_datetime(now)>> >>
        \o << <<"SUMMARY", _escape_value(summary)>> >>
        \o (IF event.description # <<>>
            THEN << <<"DESCRIPTION", _escape_value(event.description)>> >>
            ELSE <<>>)
        \o (IF event.location # <<>>
            THEN << <<"LOCATION", _escape_value(event.location)>> >>
            ELSE <<>>)
        \o << <<"UID", uid>> >>
        \o << <<"END", <<"VEVENT">> >> >>

\* The requested calendar entities that exist in the component, in order.
_iter_calendar_entities(comp, calendars) == FilterSeq(calendars, comp)

\* A fetch result: the events returned, or the exception raised.
FetchOk(events) == [kind |-> "ok", events |-> events]
FetchFailed(kind) == [kind |-> kind, events |-> <<>>]

RECURSIVE CollectEvents_stops_at_failure(_, _)
\* Mutant: a failed fetch ends the walk, dropping the calendars after it.
CollectEvents_stops_at_failure(entities, results) ==
    IF entities = <<>> THEN [cancelled |-> FALSE, events |-> <<>>]
    ELSE LET result == results[Head(entities)]
             rest == CollectEvents_stops_at_failure(Tail(entities), results)
         IN  IF result.kind = "cancelled"
             THEN [cancelled |-> TRUE, events |-> <<>>]
             ELSE IF result.kind # "ok"
             THEN [cancelled |-> FALSE, events |-> <<>>]
             ELSE [cancelled |-> rest.cancelled,
                   events |-> IF rest.cancelled THEN <<>>
                              ELSE [i \in 1..Len(result.events) |->
                                      [entity_id |-> Head(entities),
                                       event |-> result.events[i],
                                       summary |-> result.events[i].summary]]
                                   \o rest.events]

RECURSIVE CollectEvents_swallows_cancellation(_, _)
\* Mutant: a cancellation is treated as any other failed fetch.
CollectEvents_swallows_cancellation(entities, results) ==
    IF entities = <<>> THEN [cancelled |-> FALSE, events |-> <<>>]
    ELSE LET result == results[Head(entities)]
             rest == CollectEvents_swallows_cancellation(Tail(entities),
                                                         results)
         IN  IF result.kind # "ok" THEN rest
             ELSE [cancelled |-> FALSE,
                   events |-> [i \in 1..Len(result.events) |->
                                 [entity_id |-> Head(entities),
                                  event |-> result.events[i],
                                  summary |-> result.events[i].summary]]
                              \o rest.events]

RECURSIVE CollectEvents_drops_ignored(_, _)
\* Mutant: the events whose summary holds the word Ignore are left out.
CollectEvents_drops_ignored(entities, results) ==
    IF entities = <<>> THEN [cancelled |-> FALSE, events |-> <<>>]
    ELSE LET result == results[Head(entities)]
             rest == CollectEvents_drops_ignored(Tail(entities), results)
             kept == LET pick[i \in 0..Len(result.events)] ==
                             IF i = 0 THEN <<>>
                             ELSE IF \E k \in 1..Len(result.events[i].summary) :
                                        result.events[i].summary[k] = "Ignore"
                                  THEN pick[i - 1]
                                  ELSE Append(pick[i - 1], result.events[i])
                     IN  pick[Len(result.events)]
         IN  IF result.kind = "cancelled"
             THEN [cancelled |-> TRUE, events |-> <<>>]
             ELSE IF result.kind # "ok" THEN rest
             ELSE [cancelled |-> rest.cancelled,
                   events |-> IF rest.cancelled THEN <<>>
                              ELSE [i \in 1..Len(kept) |->
                                      [entity_id |-> Head(entities),
                                       event |-> kept[i],
                                       summary |-> kept[i].summary]]
                                   \o rest.events]

RECURSIVE CollectEvents(_, _)
\* Lines 191-206: walk the gathered results in entity order.  The result is
\* [cancelled, events]; a cancellation stops the walk and is re-raised.
CollectEvents(entities, results) ==
    IF entities = <<>> THEN [cancelled |-> FALSE, events |-> <<>>]
    ELSE LET result == results[Head(entities)]
             rest == CollectEvents(Tail(entities), results)
         IN  IF result.kind = "cancelled"
             THEN [cancelled |-> TRUE, events |-> <<>>]
             ELSE IF result.kind # "ok" THEN rest
             ELSE [cancelled |-> rest.cancelled,
                   events |-> IF rest.cancelled THEN <<>>
                              ELSE [i \in 1..Len(result.events) |->
                                      [entity_id |-> Head(entities),
                                       event |-> result.events[i],
                                       summary |-> result.events[i].summary]]
                                   \o rest.events]

\* Mutant: the gathered results come in the order the fetches completed.
asyncio_gather_as_completed(completed) ==
    [k \in 1..Len(completed) |-> completed[k].result]

\* asyncio.gather(*fetches, return_exceptions=True) of lines 184-190: the
\* fetches are all started, complete in any order, and the list returned
\* once all have completed holds each one's result, or exception, at the
\* position of its fetch.  completed lists [index, result] in the order of
\* completion.
asyncio_gather(completed) ==
    [i \in 1..Len(completed) |->
        completed[CHOOSE k \in 1..Len(completed) :
                     completed[k].index = i].result]

\* zip(entities, results, strict=True) of line 191: the result paired with
\* each entity.
ZipResults(entities, results) ==
    [c \in {entities[i] : i \in 1..Len(entities)} |->
        results[CHOOSE i \in 1..Len(entities) : entities[i] = c]]

\* The fetches of the entities, each returning what fetched gives for its
\* entity, listed in the order in which they complete.
Completions(entities, fetched, order) ==
    [k \in 1..Len(entities) |->
        [index |-> order[k], result |-> fetched[entities[order[k]]]]]

\* The sort of lines 208-212, with the render time as the fallback key.
SortEvents(events, utc_now) ==
    LET keyed == [i \in 1..Len(events) |->
                    [key |-> OrElse(_ensure_datetime(events[i].event.start),
                                    utc_now),
                     item |-> events[i]]]
        sorted == StableSort(keyed)
    IN  [i \in 1..Len(sorted) |-> sorted[i].item]

\* _async_generate_calendar after the gather: results maps each fetched
\* entity to its fetch result; utc_now is the instant read at line 172.
\* Returns [cancelled, raised, payload, count]: cancelled when the walk
\* re-raised a cancellation, raised when formatting an event raised.
CRLF == <<"\r", "\n">>

\* Line 225: "\r\n".join(lines) + "\r\n", the document as text; a line
\* is its property name, a colon and its value.
JoinLines(lines) ==
    Join([i \in 1..Len(lines) |-> <<lines[i][1], ":">> \o lines[i][2]], CRLF)
    \o CRLF

_async_generate_calendar(title, calendars, results, utc_now) ==
    LET entities == IF calendars # <<>>
                    THEN _iter_calendar_entities(component, calendars)
                    ELSE <<>>
        collected == CollectEvents(entities, results)
        events == SortEvents(collected.events, utc_now)
        header == << <<"BEGIN", <<"VCALENDAR">> >>,
                     <<"VERSION", <<"2.0">> >>,
                     <<"PRODID", <<"-//Home Assistant iCal Feed//EN">> >>,
                     <<"X-WR-CALNAME", _escape_value(title)>> >>
        blocks == Flatten([i \in 1..Len(events) |->
                     _format_event(events[i].entity_id, events[i].event,
                                   utc_now, Some(events[i].summary))])
        raised == \E i \in 1..Len(events) : FormatEventRaises(events[i].event)
    IN  [cancelled |-> collected.cancelled,
         raised |-> raised,
         payload |-> IF collected.cancelled \/ raised THEN <<>>
                     ELSE header \o blocks \o << <<"END", <<"VCALENDAR">> >> >>,
         count |-> IF raised THEN 0 ELSE Len(events)]

(***************************************************************************)
(* http.py: fingerprint, validators, conditional requests, cache access.   *)
(***************************************************************************)
\* Mutant: the calendar ids are hashed in the order given.
SortedCalendars_as_given(calendars) == calendars

\* sorted(calendars)
SortedCalendars(calendars) ==
    LET keyed == [i \in 1..Len(calendars) |->
                    [key |-> CalendarRank(calendars[i]), item |-> calendars[i]]]
        sorted == StableSort(keyed)
    IN  [i \in 1..Len(sorted) |-> sorted[i].item]

\* Mutant: the title is left out of the fingerprint.
_hash_config_without_title(title, calendars, past_days, future_days) ==
    <<"sha256", <<>>, SortedCalendars(calendars), past_days, future_days>>

\* sha256 of the canonical JSON of the four keys, taken to be injective.
_hash_config(title, calendars, past_days, future_days) ==
    <<"sha256", title, SortedCalendars(calendars), past_days, future_days>>

\* The quoted sha256 hex digest of the payload, taken to be injective.
_etag_for_payload(payload) == <<"\"sha256\"", payload>>

\* email.utils.format_datetime(..., usegmt=True)
FormatHttpDate(t) == <<ToString(t), "GMT">>

_build_response_headers(etag, last_modified) ==
    [ETag |-> etag,
     Last_Modified |-> FormatHttpDate(last_modified),
     Cache_Control |-> CACHE_CONTROL]

\* Tokens a client may put in If-None-Match besides a feed's entity tag.
StarToken == <<"*", <<>> >>
OtherToken == <<"\"sha256\"", <<>> >>

\* An If-None-Match value is the sequence of its comma-separated items; an
\* item is a token with or without surrounding whitespace.
Item(ws, token) == [ws |-> ws, token |-> token]
Strip(item) == Item(FALSE, item.token)

_etag_matches(header_value, etag) ==
    IF header_value = <<>> THEN FALSE
    ELSE IF Len(header_value) = 1 /\ Strip(header_value[1]) = Item(FALSE, StarToken)
         THEN TRUE
    ELSE \E i \in 1..Len(header_value) : Strip(header_value[i]) = Item(FALSE, etag)

\* An If-Modified-Since value: [ok, t], ok iff it parses as an HTTP date.
HttpDate(t) == [ok |-> TRUE, t |-> t]
MalformedDate == [ok |-> FALSE, t |-> 0]

\* Mutant: a date that does not parse counts as a match.
_is_not_modified_malformed_matches(headers, etag, last_modified) ==
    IF /\ headers.if_none_match # None
       /\ headers.if_none_match[1] # <<>>
       /\ _etag_matches(headers.if_none_match[1], etag)
    THEN TRUE
    ELSE IF headers.if_modified_since # None
         THEN LET since == headers.if_modified_since[1]
              IN  IF ~since.ok THEN TRUE ELSE last_modified <= since.t
         ELSE FALSE

\* headers: [if_none_match, if_modified_since], each None or Some(value).
_is_not_modified(headers, etag, last_modified) ==
    IF /\ headers.if_none_match # None
       /\ headers.if_none_match[1] # <<>>
       /\ _etag_matches(headers.if_none_match[1], etag)
    THEN TRUE
    ELSE IF headers.if_modified_since # None
         THEN LET since == headers.if_modified_since[1]
              IN  IF ~since.ok THEN FALSE ELSE last_modified <= since.t
         ELSE FALSE

\* Mutant: the fingerprint of the stored entry is not compared.
_get_cached_feed_any_hash(data_cache, entry_id, config_hash, allow_expired, now) ==
    IF entry_id \notin DOMAIN data_cache THEN None
    ELSE LET cached == data_cache[entry_id]
         IN  IF ~allow_expired /\ cached.expires_at <= now THEN None
             ELSE Some(cached)

\* Mutant: an entry is still returned at the instant it expires.
_get_cached_feed_late(data_cache, entry_id, config_hash, allow_expired, now) ==
    IF entry_id \notin DOMAIN data_cache THEN None
    ELSE LET cached == data_cache[entry_id]
         IN  IF cached.config_hash # config_hash THEN None
             ELSE IF ~allow_expired /\ cached.expires_at < now THEN None
             ELSE Some(cached)

\* data_cache is hass.data[DOMAIN][DATA_CACHE], now the monotonic clock.
_get_cached_feed(data_cache, entry_id, config_hash, allow_expired, now) ==
    IF entry_id \notin DOMAIN data_cache THEN None
    ELSE LET cached == data_cache[entry_id]
         IN  IF cached.config_hash # config_hash THEN None
             ELSE IF ~allow_expired /\ cached.expires_at <= now THEN None
             ELSE Some(cached)

\* Mutant: an entry that exists keeps its expiry, the other fields are
\* overwritten.
_set_cached_feed_keeps_expiry(data_cache, entry_id, cached) ==
    [id \in DOMAIN data_cache \cup {entry_id} |->
        IF id # entry_id THEN data_cache[id]
        ELSE IF id \in DOMAIN data_cache
        THEN [cached EXCEPT !.expires_at = data_cache[id].expires_at]
        ELSE cached]

\* Mutant: the entry is stored for every feed that has one.
_set_cached_feed_every_feed(data_cache, entry_id, cached) ==
    [id \in DOMAIN data_cache \cup {entry_id} |-> cached]

\* cache[entry_id] = cached
_set_cached_feed(data_cache, entry_id, cached) ==
    [id \in DOMAIN data_cache \cup {entry_id} |->
        IF id = entry_id THEN cached ELSE data_cache[id]]

\* Mutant: nothing is removed.
DictPop_keeps(dict, key) == dict

\* dict.pop(key, None)
DictPop(dict, key) == [id \in DOMAIN dict \ {key} |-> dict[id]]

_FeedCacheEntry(payload, etag, last_modified, expires_at, config_hash) ==
    [payload |-> payload, etag |-> etag, last_modified |-> last_modified,
     expires_at |-> expires_at, config_hash |-> config_hash]

(***************************************************************************)
(* http.py: ICalFeedView.get, as the operators its two halves apply.       *)
(***************************************************************************)
RECURSIVE FindBySecret(_, _)
\* Lines 78-85: the first configured entry whose secret equals the path's.
FindBySecret(candidates, secret) ==
    IF candidates = <<>> THEN None
    ELSE IF Head(candidates).secret = secret THEN Some(Head(candidates))
    ELSE FindBySecret(Tail(candidates), secret)

\* Mutant: the slug of the path is not compared.
ResolveEntry_ignores_slug(data_entries, secret, feed) ==
    FindBySecret(data_entries, secret)

\* Mutant: a path whose secret belongs to no entry resolves by its slug.
ResolveEntry_slug_alone(data_entries, secret, feed) ==
    LET found == FindBySecret(data_entries, secret)
        named == {i \in 1..Len(data_entries) :
                     get_feed_slug(data_entries[i]) = feed}
    IN  IF found = None
        THEN IF named = {} THEN None
             ELSE Some(data_entries[CHOOSE i \in named : TRUE])
        ELSE IF feed # get_feed_slug(found[1]) THEN None
        ELSE found

\* Lines 70-90: the entry the path resolves to, or None (HTTPNotFound).
ResolveEntry(data_entries, secret, feed) ==
    LET found == FindBySecret(data_entries, secret)
    IN  IF found = None THEN None
        ELSE IF feed # get_feed_slug(found[1]) THEN None
        ELSE found

NoHeaders == [ETag |-> <<>>, Last_Modified |-> <<>>, Cache_Control |-> ""]
NoResponse == [status |-> 0, body |-> <<>>, content_type |-> "",
               headers |-> NoHeaders]
NotFoundResponse == [status |-> HTTP_NOT_FOUND, body |-> <<>>,
                     content_type |-> "", headers |-> NoHeaders]

\* Mutant: a 304 is sent without the validator headers.
BuildResponse_bare_304(headers, payload, etag, last_modified) ==
    IF _is_not_modified(headers, etag, last_modified)
    THEN [status |-> HTTP_NOT_MODIFIED, body |-> <<>>, content_type |-> "",
          headers |-> NoHeaders]
    ELSE [status |-> HTTP_OK, body |-> payload,
          content_type |-> ICAL_CONTENT_TYPE,
          headers |-> _build_response_headers(etag, last_modified)]

\* Lines 106-117 and 152-161: 304 without a body, or 200 with the payload.
BuildResponse(headers, payload, etag, last_modified) ==
    IF _is_not_modified(headers, etag, last_modified)
    THEN [status |-> HTTP_NOT_MODIFIED, body |-> <<>>, content_type |-> "",
          headers |-> _build_response_headers(etag, last_modified)]
    ELSE [status |-> HTTP_OK, body |-> payload,
          content_type |-> ICAL_CONTENT_TYPE,
          headers |-> _build_response_headers(etag, last_modified)]

\* Mutant: Last-Modified is carried over from any entry that was found.
NextLastModified_any_etag(cached, etag, now) ==
    IF cached # None THEN cached[1].last_modified ELSE now

\* Lines 136-139: the carried-over or the new Last-Modified.
NextLastModified(cached, etag, now) ==
    IF cached # None /\ cached[1].etag = etag THEN cached[1].last_modified
    ELSE now

\* Mutant: the entity tag of the entry that was found is kept.
NewCacheEntry_keeps_etag(cached, payload, config_hash, now, now_monotonic) ==
    LET etag == IF cached # None THEN cached[1].etag
                ELSE _etag_for_payload(payload)
    IN  _FeedCacheEntry(payload, etag, NextLastModified(cached, etag, now),
                        now_monotonic + _CACHE_TTL, config_hash)

\* Mutant: the expiry is counted from the wall clock.
NewCacheEntry_wall_clock(cached, payload, config_hash, now, now_monotonic) ==
    LET etag == _etag_for_payload(payload)
    IN  _FeedCacheEntry(payload, etag, NextLastModified(cached, etag, now),
                        now + _CACHE_TTL, config_hash)

\* Lines 135-149: the entry stored after a regeneration.
NewCacheEntry(cached, payload, config_hash, now, now_monotonic) ==
    LET etag == _etag_for_payload(payload)
    IN  _FeedCacheEntry(payload, etag, NextLastModified(cached, etag, now),
                        now_monotonic + _CACHE_TTL, config_hash)

HOME_ASSISTANT_FEED == <<"Home Assistant Feed">>

(***************************************************************************)
(* State.                                                                  *)
(*   entries         hass.data[DOMAIN][DATA_ENTRIES], in insertion order   *)
(*   cache           hass.data[DOMAIN][DATA_CACHE], entry id -> cache entry*)
(*   calendarEvents  what each calendar entity returns when fetched        *)
(*   monotonic       time.monotonic()                                      *)
(*   utcnow          dt_util.utcnow(), in whole seconds                    *)
(*   requests        the GET requests suspended in the gather, with their  *)
(*                   local variables                                       *)
(*   last            the request that completed last, with its response    *)
(*   writes          per feed, the last two regenerations that stored an   *)
(*                   entry: the entry, what was rendered and the clock     *)
(*   opCount, requestCount  how many lifecycle operations and requests     *)
(*                   have happened (bounded)                               *)
(*   call            the call of a function made on its own, outside a     *)
(*                   request: the function, its arguments and its result   *)
(*   registry        the calendar entity ids in the entity registry        *)
(*   issues          the repair issues of the integration, by issue id     *)
(*   listeners       hass.data[DOMAIN][DATA_LISTENERS]: per entry id, the  *)
(*                   entity ids whose registry events its listener tracks  *)
(*   tracker         per entry id, how many of its subscriptions to        *)
(*                   registry events are active in Home Assistant's event  *)
(*                   tracker, and whether it ever made one                 *)
(*   secretCount     how many secrets generate_secret has returned         *)
(*   revoked         the secrets that a rotation has replaced              *)
(*   unloaded        the secrets feeds had when they were unloaded         *)
(***************************************************************************)
ConfigEntry(entry_id, title, secret, calendars, past_days, future_days) ==
    [entry_id |-> entry_id, title |-> title, secret |-> secret,
     calendars |-> calendars, past_days |-> past_days,
     future_days |-> future_days]

Event1 == [start |-> DateTimeValue(1), end |-> DateTimeValue(2),
           summary |-> <<"E">>, description |-> <<>>, location |-> <<>>,
           uid |-> <<>>, all_day |-> FALSE]
EventLists == {<<>>, <<Event1>>}

FailureKinds == {"none", "ha_error", "error", "cancelled"}

LoadedIds == {entries[i].entry_id : i \in 1..Len(entries)}
EntryOf(entry_id) ==
    entries[CHOOSE i \in 1..Len(entries) : entries[i].entry_id = entry_id]

\* domain_data[DATA_ENTRIES][entry.entry_id] = entry: an existing key keeps
\* its place in the dict, a new key is added at the end.
DictSet(dict, entry) ==
    IF \E i \in 1..Len(dict) : dict[i].entry_id = entry.entry_id
    THEN [i \in 1..Len(dict) |->
            IF dict[i].entry_id = entry.entry_id THEN entry ELSE dict[i]]
    ELSE Append(dict, entry)

RECURSIVE DictRemove(_, _)
\* domain_data[DATA_ENTRIES].pop(entry_id, None)
DictRemove(dict, entry_id) ==
    IF dict = <<>> THEN <<>>
    ELSE (IF Head(dict).entry_id = entry_id THEN <<>> ELSE <<Head(dict)>>)
         \o DictRemove(Tail(dict), entry_id)

RequestHeaders(if_none_match, if_modified_since) ==
    [if_none_match |-> if_none_match, if_modified_since |-> if_modified_since]

NoConfigHash == <<"sha256", <<>>, <<>>, 0, 0>>

\* A request: its path and headers, the handler's position and
\* local variables, and what it was answered.
IdleRequest ==
    [pc |-> "idle", secret |-> <<>>, feed |-> <<>>,
     headers |-> RequestHeaders(None, None),
     entry_id |-> None, title |-> <<>>, calendars |-> <<>>,
     past_days |-> 0, future_days |-> 0,
     config_hash |-> NoConfigHash, cached |-> None, utc_now |-> 0,
     outcome |-> "none", source |-> "none", response |-> NoResponse]

\* No function has been called on its own.
NoCall == [fn |-> "none"]

Init ==
    /\ entries = <<>>
    /\ cache = <<>>
    /\ calendarEvents = [c \in CalendarIds |-> <<>>]
    /\ monotonic = 0
    /\ utcnow = 0
    /\ requests = [r \in Requests |-> IdleRequest]
    /\ last = IdleRequest
    /\ writes = [id \in EntryIds |-> <<>>]
    /\ opCount = 0
    /\ requestCount = 0
    /\ call = NoCall
    /\ registry = CalendarIds
    /\ issues = {}
    /\ listeners = <<>>
    /\ tracker = [id \in EntryIds |-> [active |-> 0, made |-> FALSE]]
    /\ secretCount = 0
    /\ revoked = {}
    /\ unloaded = {}

(***************************************************************************)
(* __init__.py: the config entry lifecycle.                                *)
(***************************************************************************)
_build_issue_id(entry_id) == entry_id \o <<"_missing_calendar">>

\* Mutant: the issue, once created, is never cleared.
_async_check_missing_calendars_never_clears(reg, iss, entry) ==
    LET missing == FilterSeq(entry.calendars,
                       {entry.calendars[i] : i \in 1..Len(entry.calendars)}
                       \ reg)
    IN  IF missing # <<>> THEN iss \cup {_build_issue_id(entry.entry_id)}
        ELSE iss

\* Lines 114-146: the issues after the check, reg being the entity registry
\* and iss the issues before it.
_async_check_missing_calendars(reg, iss, entry) ==
    LET missing == FilterSeq(entry.calendars,
                       {entry.calendars[i] : i \in 1..Len(entry.calendars)}
                       \ reg)
        issue_id == _build_issue_id(entry.entry_id)
    IN  IF missing # <<>> THEN iss \cup {issue_id} ELSE iss \ {issue_id}

\* entity_id.lower()
LowerId(c) == IF c = "Calendar.a" THEN "calendar.a" ELSE c

\* Lines 102-106: the listeners without the one of the entry.
_async_remove_registry_listener(lst, entry_id) == DictPop(lst, entry_id)

\* Lines 80-99: the listeners after the entry's listener was replaced by one
\* tracking its calendars in lower case (none for an entry without them).
_async_register_registry_listener(lst, entry) ==
    LET removed == _async_remove_registry_listener(lst, entry.entry_id)
        calendars == {LowerId(entry.calendars[i]) :
                         i \in 1..Len(entry.calendars)}
    IN  IF entry.calendars = <<>> THEN removed
        ELSE [id \in DOMAIN removed \cup {entry.entry_id} |->
                IF id = entry.entry_id THEN calendars ELSE removed[id]]

\* Mutant: the listener that is removed stays subscribed.
Unsubscribe_never(trk, lst, entry_id) == trk

\* Lines 105-106: unsub() is called on the listener that was popped, if
\* there was one, which ends its subscription.
Unsubscribe(trk, lst, entry_id) ==
    IF entry_id \in DOMAIN lst
    THEN [trk EXCEPT ![entry_id].active = @ - 1]
    ELSE trk

\* Lines 83-98: the listener of the entry is removed and, for an entry with
\* calendars, async_track_entity_registry_updated_event makes a new
\* subscription.
Resubscribe(trk, lst, entry) ==
    LET removed == Unsubscribe(trk, lst, entry.entry_id)
    IN  IF entry.calendars = <<>> THEN removed
        ELSE [removed EXCEPT ![entry.entry_id] =
                 [active |-> @.active + 1, made |-> TRUE]]

\* Lines 90-94: the callback of a listener of entry entry_id.
RegistryCallback(reg, iss, entry_id) ==
    IF entry_id \notin LoadedIds THEN iss
    ELSE _async_check_missing_calendars(reg, iss, EntryOf(entry_id))

\* Lines 37-45, for an entry that is not loaded.
SetupEntry(entry) ==
    /\ entry.entry_id \notin LoadedIds
    /\ entries' = DictSet(entries, entry)
    /\ cache' = DictPop(cache, entry.entry_id)
    /\ listeners' = _async_register_registry_listener(listeners, entry)
    /\ tracker' = Resubscribe(tracker, listeners, entry)
    /\ issues' = _async_check_missing_calendars(registry, issues, entry)
    /\ opCount' = opCount + 1
    /\ UNCHANGED <<registry, flowVars, call, calendarEvents, monotonic, utcnow,
                   requests, last, writes, requestCount>>

\* Lines 48-55, for an entry that is loaded.
UnloadEntry(entry_id) ==
    /\ entry_id \in LoadedIds
    /\ entries' = DictRemove(entries, entry_id)
    /\ cache' = DictPop(cache, entry_id)
    /\ listeners' = _async_remove_registry_listener(listeners, entry_id)
    /\ tracker' = Unsubscribe(tracker, listeners, entry_id)
    /\ issues' = issues \ {_build_issue_id(entry_id)}
    /\ opCount' = opCount + 1
    /\ unloaded' = unloaded \cup {EntryOf(entry_id).secret}
    /\ UNCHANGED <<registry, secretCount, revoked, call, calendarEvents,
                   monotonic, utcnow, requests, last, writes, requestCount>>

\* The three operations, while fewer than MaxOps have happened.
async_setup_entry(entry) == opCount < MaxOps /\ SetupEntry(entry)

async_unload_entry(entry_id) == opCount < MaxOps /\ UnloadEntry(entry_id)

\* Lines 58-64 for the entry as it is after a change of the config entry.
UpdateListener(entry) ==
    /\ entries' = DictSet(entries, entry)
    /\ cache' = DictPop(cache, entry.entry_id)
    /\ listeners' = _async_register_registry_listener(listeners, entry)
    /\ tracker' = Resubscribe(tracker, listeners, entry)
    /\ issues' = _async_check_missing_calendars(registry, issues, entry)

\* The update listener, run after the config entry was changed.
UpdateEntry(entry) ==
    /\ entry.entry_id \in LoadedIds
    /\ entry # EntryOf(entry.entry_id)
    /\ UpdateListener(entry)
    /\ opCount' = opCount + 1
    /\ UNCHANGED <<registry, flowVars, call, calendarEvents, monotonic, utcnow,
                   requests, last, writes, requestCount>>

_update_entry(entry) == opCount < MaxOps /\ UpdateEntry(entry)

\* Lines 90-94, for an event of the entity registry about entity c (the
\* entity was registered, or removed): the listener of every entry that
\* tracks c checks the calendars of the entry as it is now, if it is loaded.
_handle_registry_event(reg, iss, c) ==
    LET handled == {id \in DOMAIN listeners :
                       c \in listeners[id] /\ id \in LoadedIds}
    IN  {x \in iss \cup {_build_issue_id(id) : id \in handled} :
            IF \E id \in handled : x = _build_issue_id(id)
            THEN \E id \in handled :
                    /\ x = _build_issue_id(id)
                    /\ x \in _async_check_missing_calendars(reg, {},
                                                             EntryOf(id))
            ELSE x \in iss}

entity_registry_updated(c, present) ==
    /\ (c \in registry) # present
    /\ registry' = IF present THEN registry \cup {c} ELSE registry \ {c}
    /\ issues' = _handle_registry_event(registry', issues, c)
    /\ UNCHANGED <<listeners, tracker, flowVars, call, entries, cache,
                   calendarEvents, monotonic, utcnow, requests, last, writes,
                   opCount, requestCount>>

\* The callback of a listener of entry entry_id runs although the listener
\* has been unsubscribed: an event whose dispatch was under way.
registry_event_late(entry_id) ==
    /\ tracker[entry_id].made
    /\ entry_id \notin DOMAIN listeners
    /\ issues' = RegistryCallback(registry, issues, entry_id)
    /\ UNCHANGED <<registry, listeners, tracker, flowVars, call, entries,
                   cache, calendarEvents, monotonic, utcnow, requests, last,
                   writes, opCount, requestCount>>

(***************************************************************************)
(* config_flow.py: the reauth flow and the options flow, each from the     *)
(* submitted form to the end of the update listener that the change of the *)
(* config entry starts.  A flow changes the data of the entry object that  *)
(* DATA_ENTRIES holds; the title is not part of the data.                  *)
(***************************************************************************)
MaxSecrets == 2

\* Mutant: every secret generated is the first one.
generate_secret_constant(n) == <<"g", "1">>

\* generate_secret(): the n-th secret generated.  Its 512 random bits are
\* taken never to repeat and never to equal a configured secret.
generate_secret(n) == <<"g", ToString(n)>>

\* A number submitted through a form is a float, held here in tenths.
PyFloat(n) == n * 10
\* int(x) of a float that is not negative.
PyInt(x) == x \div 10

\* A submitted options form.
UserInput(regenerate_link, past_days, future_days) ==
    [regenerate_link |-> regenerate_link, past_days |-> past_days,
     future_days |-> future_days]

\* Lines 131-132: the data the reauth flow stores.
ReauthData(entry, new_secret) == [entry EXCEPT !.secret = new_secret]

\* Mutant: the options flow renews the secret whatever was submitted.
OptionsData_always_regenerates(entry, user_input, new_secret) ==
    [entry EXCEPT
        !.secret = new_secret,
        !.past_days = PyInt(OrElse(user_input.past_days, PyFloat(@))),
        !.future_days = PyInt(OrElse(user_input.future_days, PyFloat(@)))]

\* Lines 178-186: the data the options flow stores.
OptionsData(entry, user_input, new_secret) ==
    [entry EXCEPT
        !.secret = IF user_input.regenerate_link THEN new_secret ELSE @,
        !.past_days = PyInt(OrElse(user_input.past_days, PyFloat(@))),
        !.future_days = PyInt(OrElse(user_input.future_days, PyFloat(@)))]

\* hass.config_entries.async_update_entry(entry, data=...): nothing happens
\* when the data are the same, else the entry is changed and its update
\* listener runs.
async_update_entry(entry) ==
    IF entry = EntryOf(entry.entry_id)
    THEN UNCHANGED <<entries, cache, listeners, tracker, issues>>
    ELSE UpdateListener(entry)

async_step_reauth_confirm(entry_id) ==
    /\ entry_id \in LoadedIds
    /\ secretCount < MaxSecrets
    /\ async_update_entry(ReauthData(EntryOf(entry_id),
                                     generate_secret(secretCount + 1)))
    /\ secretCount' = secretCount + 1
    /\ revoked' = revoked \cup {EntryOf(entry_id).secret}
    /\ UNCHANGED <<registry, call, calendarEvents, monotonic, utcnow, requests,
                   last, writes, opCount, requestCount, unloaded>>

\* ICalFeedOptionsFlow.async_step_init with a submitted form.
options_async_step_init(entry_id, user_input) ==
    /\ entry_id \in LoadedIds
    /\ user_input.regenerate_link => secretCount < MaxSecrets
    /\ async_update_entry(OptionsData(EntryOf(entry_id), user_input,
                                      generate_secret(secretCount + 1)))
    /\ secretCount' = IF user_input.regenerate_link THEN secretCount + 1
                      ELSE secretCount
    /\ revoked' = IF user_input.regenerate_link
                  THEN revoked \cup {EntryOf(entry_id).secret}
                  ELSE revoked
    /\ UNCHANGED <<registry, call, calendarEvents, monotonic, utcnow, requests,
                   last, writes, opCount, requestCount, unloaded>>

(***************************************************************************)
(* http.py: ICalFeedView.get.  The handler runs up to the await of the     *)
(* gathered fetches (get_start) and, for a regeneration, from there to the *)
(* response (get_finish).  With no entity to fetch there is no await and   *)
(* the whole handler is one step.                                          *)
(***************************************************************************)
\* The results of the gather: each entity's events, or its failure.
GatherResults(failures) ==
    [c \in DOMAIN failures |->
        IF failures[c] = "none" THEN FetchOk(calendarEvents[c])
        ELSE FetchFailed(failures[c])]

\* Lines 119-161 for request record req: [cancelled, error, entry,
\* response]; cancelled when the render raised, error when what it raised
\* was not a cancellation.
Regenerate(req, failures) ==
    LET generated == _async_generate_calendar(
                        IF req.title # <<>> THEN req.title
                        ELSE HOME_ASSISTANT_FEED,
                        req.calendars, GatherResults(failures), req.utc_now)
        stored == NewCacheEntry(req.cached, generated.payload, req.config_hash,
                                utcnow, monotonic)
    IN  [cancelled |-> generated.cancelled \/ generated.raised,
         error |-> generated.raised,
         entry |-> stored,
         response |-> BuildResponse(req.headers, stored.payload, stored.etag,
                                    stored.last_modified)]

\* The request record after lines 119-161.
FinishedRequest(req, failures) ==
    LET done == Regenerate(req, failures)
    IN  IF done.cancelled
        THEN [req EXCEPT !.pc = "done",
                         !.outcome = IF done.error THEN "error"
                                     ELSE "cancelled"]
        ELSE [req EXCEPT !.pc = "done", !.outcome = "response",
                         !.source = "render", !.response = done.response]

\* The cache after lines 119-161.
FinishedCache(req, failures) ==
    LET done == Regenerate(req, failures)
    IN  IF done.cancelled THEN cache
        ELSE _set_cached_feed(cache, req.entry_id[1], done.entry)

\* The events each fetched calendar contributed (none when it failed).
ReturnedEvents(results) == [c \in DOMAIN results |-> results[c].events]

\* The record of the regeneration, kept with the one before it.
FinishedWrites(req, failures) ==
    LET done == Regenerate(req, failures)
        id == req.entry_id[1]
        record == [entry |-> done.entry, found |-> req.cached, now |-> utcnow,
                   title |-> req.title, calendars |-> req.calendars,
                   returned |-> ReturnedEvents(GatherResults(failures)),
                   utc_now |-> req.utc_now, secret |-> req.secret]
    IN  IF done.cancelled THEN writes
        ELSE [writes EXCEPT ![id] =
                IF writes[id] = <<>> THEN <<record>>
                ELSE <<writes[id][Len(writes[id])], record>>]

\* Lines 68-125: the handler from the arrival of the request to the await
\* of the fetches, or to its response when it does not get that far.
ICalFeedView_get(r, secret, feed, headers) ==
    /\ requests[r].pc = "idle"
    /\ requestCount' = requestCount + 1
    /\ LET resolved == ResolveEntry(entries, secret, feed)
           base == [IdleRequest EXCEPT !.secret = secret, !.feed = feed,
                                       !.headers = headers]
       IN  IF resolved = None
           THEN /\ last' = [base EXCEPT !.pc = "done", !.outcome = "not_found",
                                        !.response = NotFoundResponse]
                /\ UNCHANGED <<requests, cache, writes>>
           ELSE LET entry == resolved[1]
                    config_hash == _hash_config(entry.title, entry.calendars,
                                       entry.past_days, entry.future_days)
                    cached == _get_cached_feed(cache, entry.entry_id,
                                               config_hash, TRUE, monotonic)
                    req == [base EXCEPT !.entry_id = Some(entry.entry_id),
                                        !.title = entry.title,
                                        !.calendars = entry.calendars,
                                        !.past_days = entry.past_days,
                                        !.future_days = entry.future_days,
                                        !.config_hash = config_hash,
                                        !.cached = cached,
                                        !.utc_now = utcnow]
                    entities == _iter_calendar_entities(component,
                                                        entry.calendars)
                IN  IF cached # None /\ cached[1].expires_at > monotonic
                    THEN /\ last' = [req EXCEPT !.pc = "done",
                                         !.outcome = "response",
                                         !.source = "cache",
                                         !.response = BuildResponse(headers,
                                             cached[1].payload, cached[1].etag,
                                             cached[1].last_modified)]
                         /\ UNCHANGED <<requests, cache, writes>>
                    ELSE IF entities = <<>>
                    THEN /\ last' = FinishedRequest(req, <<>>)
                         /\ cache' = FinishedCache(req, <<>>)
                         /\ writes' = FinishedWrites(req, <<>>)
                         /\ UNCHANGED requests
                    ELSE /\ requests' = [requests EXCEPT ![r] =
                                            [req EXCEPT !.pc = "fetching"]]
                         /\ UNCHANGED <<last, cache, writes>>
    /\ UNCHANGED <<platformVars, flowVars, call, entries, calendarEvents, monotonic, utcnow, opCount>>

\* A request arrives, while fewer than MaxRequests have.
get_start(r, secret, feed, headers) ==
    /\ requestCount < MaxRequests
    /\ ICalFeedView_get(r, secret, feed, headers)

get_finish(r, failures) ==
    /\ requests[r].pc = "fetching"
    /\ last' = FinishedRequest(requests[r], failures)
    /\ cache' = FinishedCache(requests[r], failures)
    /\ writes' = FinishedWrites(requests[r], failures)
    /\ requests' = [requests EXCEPT ![r] = IdleRequest]
    /\ UNCHANGED <<platformVars, flowVars, call, entries, calendarEvents, monotonic, utcnow, opCount,
                   requestCount>>

(***************************************************************************)
(* The environment: the calendars' contents and the two clocks.            *)
(***************************************************************************)
calendar_changed(c, events) ==
    /\ calendarEvents[c] # events
    /\ calendarEvents' = [calendarEvents EXCEPT ![c] = events]
    /\ UNCHANGED <<platformVars, flowVars, call, entries, cache, monotonic, utcnow, requests, last, writes,
                   opCount, requestCount>>

tick_monotonic ==
    /\ monotonic < MaxMonotonicSteps * MonotonicStep
    /\ monotonic' = monotonic + MonotonicStep
    /\ UNCHANGED <<platformVars, flowVars, call, entries, cache, calendarEvents, utcnow, requests, last, writes,
                   opCount, requestCount>>

tick_utcnow ==
    /\ utcnow < MaxUtc
    /\ utcnow' = utcnow + 1
    /\ UNCHANGED <<platformVars, flowVars, call, entries, cache, calendarEvents, monotonic, requests, last,
                   writes, opCount, requestCount>>

\* The entities a suspended request is fetching.
FetchedEntities(r) ==
    {requests[r].calendars[i] : i \in 1..Len(requests[r].calendars)}
    \cap component

(***************************************************************************)
(* Inputs.  The entity tags and dates a client can send are the ones it    *)
(* can have learnt from the stored entries.                                *)
(***************************************************************************)
KnownEtags == {cache[id].etag : id \in DOMAIN cache}
KnownDates == {cache[id].last_modified : id \in DOMAIN cache}

(***************************************************************************)
(* Spec: the lifecycle of two feeds and their cache.  Feed 1 can be        *)
(* renamed or given another window; clients send no validator or the      *)
(* entity tag of a stored entry.                                           *)
(***************************************************************************)
CacheConfigs ==
    {ConfigEntry(<<"1">>, title, <<"s">>, <<"calendar.a">>,
                 DEFAULT_PAST_DAYS, DEFAULT_FUTURE_DAYS) :
        title \in {<<"A">>, <<"a">>}}
    \cup {ConfigEntry(<<"1">>, <<"A">>, <<"s">>, <<"calendar.a">>,
                      1, DEFAULT_FUTURE_DAYS)}
    \cup {ConfigEntry(<<"2">>, <<"A">>, <<"t">>, <<"calendar.a">>,
                      DEFAULT_PAST_DAYS, DEFAULT_FUTURE_DAYS)}

CacheHeaders ==
    {RequestHeaders(None, None)}
    \cup {RequestHeaders(Some(<<Item(FALSE, e)>>), None) : e \in KnownEtags}

Next ==
    \/ \E entry \in CacheConfigs : async_setup_entry(entry)
    \/ \E entry \in CacheConfigs : _update_entry(entry)
    \/ \E id \in EntryIds : async_unload_entry(id)
    \/ \E r \in Requests, secret \in {<<"s">>, <<"t">>}, headers \in CacheHeaders :
          get_start(r, secret, <<"a">>, headers)
    \/ \E r \in Requests :
          \E failures \in [FetchedEntities(r) -> FailureKinds] :
             get_finish(r, failures)
    \/ \E events \in EventLists : calendar_changed("calendar.a", events)
    \/ tick_monotonic
    \/ tick_utcnow

Spec == Init /\ [][Next]_vars

(***************************************************************************)
(* SpecConditional: one feed, set up once, and a client that sends every   *)
(* combination of the two conditional headers, one request at a time;      *)
(* every fetch succeeds.                                                   *)
(***************************************************************************)
ConditionalConfigs ==
    {ConfigEntry(<<"1">>, title, <<"s">>, <<"calendar.a">>,
                 DEFAULT_PAST_DAYS, DEFAULT_FUTURE_DAYS) :
        title \in {<<"A">>, <<"a">>}}

\* No header, an empty value, *, another tag, a stored entry's tag alone,
\* and that tag second in a list with whitespace around it.
IfNoneMatchValues ==
    {None, Some(<<>>), Some(<<Item(FALSE, StarToken)>>),
     Some(<<Item(FALSE, OtherToken)>>)}
    \cup {Some(<<Item(FALSE, e)>>) : e \in KnownEtags}
    \cup {Some(<<Item(FALSE, OtherToken), Item(TRUE, e)>>) : e \in KnownEtags}

IfModifiedSinceValues ==
    {None, Some(MalformedDate)} \cup {Some(HttpDate(t)) : t \in 0..MaxUtc}

NextConditional ==
    \/ \E entry \in ConditionalConfigs : async_setup_entry(entry)
    \/ \E inm \in IfNoneMatchValues, ims \in IfModifiedSinceValues :
          get_start("r1", <<"s">>, <<"a">>, RequestHeaders(inm, ims))
    \/ \E failures \in [FetchedEntities("r1") -> {"none"}] :
          get_finish("r1", failures)
    \/ \E events \in EventLists : calendar_changed("calendar.a", events)
    \/ tick_monotonic
    \/ tick_utcnow

SpecConditional == Init /\ [][NextConditional]_vars

(***************************************************************************)
(* SpecAccess: two feeds with any of the titles and secrets, set up in     *)
(* either order, and requests for any path, with the clocks and the        *)
(* calendars left as they are.  Feed 1 has no calendar (its handler never  *)
(* suspends), feed 2 has one.                                              *)
(***************************************************************************)
AccessTitles == {<<"A">>, <<"a">>, <<"?">>}
AccessSecrets == {<<"s">>, <<"t">>}

AccessConfigs ==
    {ConfigEntry(<<"1">>, title, secret, <<>>,
                 DEFAULT_PAST_DAYS, DEFAULT_FUTURE_DAYS) :
        title \in AccessTitles, secret \in AccessSecrets}
    \cup {ConfigEntry(<<"2">>, title, secret, <<"calendar.a">>,
                      DEFAULT_PAST_DAYS, DEFAULT_FUTURE_DAYS) :
            title \in AccessTitles, secret \in AccessSecrets}

PathSecrets == AccessSecrets \cup {<<"u">>}
PathSlugs == {get_feed_slug(e) : e \in AccessConfigs} \cup {<<"x">>}

NextAccess ==
    \/ \E entry \in AccessConfigs : async_setup_entry(entry)
    \/ \E entry \in AccessConfigs : _update_entry(entry)
    \/ \E id \in EntryIds : async_unload_entry(id)
    \/ \E r \in Requests, secret \in PathSecrets, feed \in PathSlugs :
          get_start(r, secret, feed, RequestHeaders(None, None))
    \/ \E r \in Requests :
          \E failures \in [FetchedEntities(r) -> FailureKinds] :
             get_finish(r, failures)

SpecAccess == Init /\ [][NextAccess]_vars

(***************************************************************************)
(* SpecCalendars: one feed over two calendars, in either order or over one *)
(* of them, under either title; it is set up and reconfigured while a      *)
(* request may be suspended in its fetches, each of which can succeed,     *)
(* fail or be cancelled.                                                   *)
(***************************************************************************)
CalendarsConfigs ==
    {ConfigEntry(<<"1">>, title, <<"s">>, calendars,
                 DEFAULT_PAST_DAYS, DEFAULT_FUTURE_DAYS) :
        title \in {<<"A">>, <<"a">>},
        calendars \in {<<"calendar.a", "calendar.b">>,
                       <<"calendar.b", "calendar.a">>}}
    \cup {ConfigEntry(<<"1">>, <<"A">>, <<"s">>, <<"calendar.a">>,
                      DEFAULT_PAST_DAYS, DEFAULT_FUTURE_DAYS)}

NextCalendars ==
    \/ \E entry \in CalendarsConfigs : async_setup_entry(entry)
    \/ \E entry \in CalendarsConfigs : _update_entry(entry)
    \/ get_start("r1", <<"s">>, <<"a">>, RequestHeaders(None, None))
    \/ \E failures \in [FetchedEntities("r1") -> FailureKinds] :
          get_finish("r1", failures)
    \/ \E c \in CalendarIds, events \in EventLists : calendar_changed(c, events)
    \/ tick_monotonic

SpecCalendars == Init /\ [][NextCalendars]_vars

(***************************************************************************)
(* SpecRepairs: two feeds, the first over no calendar, one, both, or one   *)
(* spelled with a capital, the second over one; they are set up, updated   *)
(* and unloaded while calendar entities leave and enter the registry.      *)
(***************************************************************************)
RepairsConfigs ==
    {ConfigEntry(<<"1">>, <<"A">>, <<"s">>, calendars,
                 DEFAULT_PAST_DAYS, DEFAULT_FUTURE_DAYS) :
        calendars \in {<<>>, <<"calendar.a">>, <<"calendar.a", "calendar.b">>,
                       <<"Calendar.a">>}}
    \cup {ConfigEntry(<<"2">>, <<"A">>, <<"t">>, calendars,
                      DEFAULT_PAST_DAYS, DEFAULT_FUTURE_DAYS) :
            calendars \in {<<"calendar.a">>, <<"calendar.b">>}}

NextRepairs ==
    \/ \E entry \in RepairsConfigs : async_setup_entry(entry)
    \/ \E entry \in RepairsConfigs : _update_entry(entry)
    \/ \E id \in EntryIds : async_unload_entry(id)
    \/ \E c \in CalendarIds, present \in BOOLEAN :
          entity_registry_updated(c, present)

SpecRepairs == Init /\ [][NextRepairs]_vars

(***************************************************************************)
(* SpecFlows: two feeds with their own secrets are set up; their secrets   *)
(* are rotated by the reauth flow and the options flow, which also sets    *)
(* the day window, while clients request the feeds with the configured and *)
(* the generated secrets.                                                  *)
(***************************************************************************)
FlowsConfigs ==
    {ConfigEntry(<<"1">>, <<"A">>, <<"s">>, <<"calendar.a">>,
                 DEFAULT_PAST_DAYS, DEFAULT_FUTURE_DAYS),
     ConfigEntry(<<"2">>, <<"A">>, <<"t">>, <<>>,
                 DEFAULT_PAST_DAYS, DEFAULT_FUTURE_DAYS)}

\* The form fields: absent, a whole number, and a number with a fraction.
SubmittedPastDays == {None, Some(PyFloat(1)), Some(PyFloat(1) + 5)}
SubmittedFutureDays == {None, Some(PyFloat(DEFAULT_FUTURE_DAYS))}
UserInputs ==
    {UserInput(regenerate_link, past_days, future_days) :
        regenerate_link \in BOOLEAN, past_days \in SubmittedPastDays,
        future_days \in SubmittedFutureDays}

FlowsSecrets ==
    {<<"s">>, <<"t">>} \cup {generate_secret(n) : n \in 1..MaxSecrets}

NextFlows ==
    \/ \E entry \in FlowsConfigs : async_setup_entry(entry)
    \/ \E id \in EntryIds : async_step_reauth_confirm(id)
    \/ \E id \in EntryIds, user_input \in UserInputs :
          options_async_step_init(id, user_input)
    \/ \E r \in Requests, secret \in FlowsSecrets :
          get_start(r, secret, <<"a">>, RequestHeaders(None, None))
    \/ \E r \in Requests :
          \E failures \in [FetchedEntities(r) -> {"none"}] :
             get_finish(r, failures)

SpecFlows == Init /\ [][NextFlows]_vars

(***************************************************************************)
(* SpecLifecycle: two feeds with the same slug are set up, updated,        *)
(* unloaded and set up again, three operations in all, while clients       *)
(* request them, three requests in all, two of which can be suspended in   *)
(* their fetches across an operation; every fetch succeeds.                *)
(***************************************************************************)
MaxLifecycleOps == 3
MaxLifecycleRequests == 3

LifecycleConfigs ==
    {ConfigEntry(<<"1">>, title, <<"s">>, <<"calendar.a">>,
                 DEFAULT_PAST_DAYS, DEFAULT_FUTURE_DAYS) :
        title \in {<<"A">>, <<"a">>}}
    \cup {ConfigEntry(<<"2">>, <<"A">>, <<"t">>, <<"calendar.a">>,
                      DEFAULT_PAST_DAYS, DEFAULT_FUTURE_DAYS)}

NextLifecycle ==
    \/ \E entry \in LifecycleConfigs :
          opCount < MaxLifecycleOps /\ SetupEntry(entry)
    \/ \E entry \in LifecycleConfigs :
          opCount < MaxLifecycleOps /\ UpdateEntry(entry)
    \/ \E id \in EntryIds :
          opCount < MaxLifecycleOps /\ UnloadEntry(id)
    \/ \E r \in Requests, secret \in {<<"s">>, <<"t">>} :
          /\ requestCount < MaxLifecycleRequests
          /\ ICalFeedView_get(r, secret, <<"a">>, RequestHeaders(None, None))
    \/ \E r \in Requests :
          \E failures \in [FetchedEntities(r) -> {"none"}] :
             get_finish(r, failures)

SpecLifecycle == Init /\ [][NextLifecycle]_vars

(***************************************************************************)
(* SpecListeners: the feeds of SpecRepairs are set up, updated, unloaded   *)
(* and set up again, three operations in all, while calendar entities      *)
(* leave and enter the registry and callbacks of unsubscribed listeners    *)
(* still run.                                                              *)
(***************************************************************************)
NextListeners ==
    \/ \E entry \in RepairsConfigs :
          opCount < MaxLifecycleOps /\ SetupEntry(entry)
    \/ \E entry \in RepairsConfigs :
          opCount < MaxLifecycleOps /\ UpdateEntry(entry)
    \/ \E id \in EntryIds :
          opCount < MaxLifecycleOps /\ UnloadEntry(id)
    \/ \E c \in CalendarIds, present \in BOOLEAN :
          entity_registry_updated(c, present)
    \/ \E id \in EntryIds : registry_event_late(id)

SpecListeners == Init /\ [][NextListeners]_vars

(***************************************************************************)
(* SpecConcurrent: one feed, set up once, and up to three requests for it, *)
(* two of which can be suspended in their fetches at a time, while the     *)
(* calendar changes and both clocks advance; every fetch succeeds.         *)
(***************************************************************************)
MaxConcurrentRequests == 3

ConcurrentConfig ==
    ConfigEntry(<<"1">>, <<"A">>, <<"s">>, <<"calendar.a">>,
                DEFAULT_PAST_DAYS, DEFAULT_FUTURE_DAYS)

NextConcurrent ==
    \/ async_setup_entry(ConcurrentConfig)
    \/ \E r \in Requests :
          /\ requestCount < MaxConcurrentRequests
          /\ ICalFeedView_get(r, <<"s">>, <<"a">>, RequestHeaders(None, None))
    \/ \E r \in Requests :
          \E failures \in [FetchedEntities(r) -> {"none"}] :
             get_finish(r, failures)
    \/ \E events \in EventLists : calendar_changed("calendar.a", events)
    \/ tick_monotonic
    \/ tick_utcnow

SpecConcurrent == Init /\ [][NextConcurrent]_vars

(***************************************************************************)
(* SpecHelpers: the renderer, the fingerprint and the escaping, each       *)
(* called once on its own with arguments drawn from small sets.            *)
(***************************************************************************)
CalendarEvent(start, end, summary, description, location, uid, all_day) ==
    [start |-> start, end |-> end, summary |-> summary,
     description |-> description, location |-> location, uid |-> uid,
     all_day |-> all_day]

\* Events that start at 1, at 3, again at 1, at no known time, at a value
\* of another shape, on a day; an event without any optional attribute and
\* without start and end, and the same with a uid.
EventLate ==
    CalendarEvent(DateTimeValue(3), DateTimeValue(4), <<"L">>, <<>>, <<>>,
                  <<>>, FALSE)
EventTie ==
    CalendarEvent(DateTimeValue(1), DateTimeValue(2), <<"T">>, <<",">>, <<>>,
                  <<>>, FALSE)
EventNoStart ==
    CalendarEvent(NoValue, NoValue, <<"N">>, <<>>, <<>>, <<>>, FALSE)
EventOtherShape ==
    CalendarEvent(OtherValue, DateTimeValue(4), <<"O">>, <<>>, <<";">>, <<>>,
                  FALSE)
EventAllDay ==
    CalendarEvent(DateValue(0), DateValue(1), <<"D">>, <<>>, <<>>, <<>>, TRUE)
EventBare ==
    CalendarEvent(MissingValue, MissingValue, <<>>, <<>>, <<>>, <<>>, FALSE)
EventBareUid ==
    CalendarEvent(MissingValue, MissingValue, <<>>, <<>>, <<>>, <<"u">>, FALSE)

\* An event whose uid holds a line break.
EventUidBreak ==
    CalendarEvent(DateTimeValue(1), DateTimeValue(2), <<"B">>, <<"\n">>, <<>>,
                  <<"u", "\r", "\n", "X">>, FALSE)

RenderUtcNow == 2

\* The events of test_async_generate_calendar_filters: one to start in four
\* hours, returned first, and one to start in two.  Their summaries are held
\* word by word.
EventSkip ==
    CalendarEvent(DateTimeValue(RenderUtcNow + 4),
                  DateTimeValue(RenderUtcNow + 5), <<"Ignore", " ", "me">>,
                  <<>>, <<>>, <<>>, FALSE)
EventOk ==
    CalendarEvent(DateTimeValue(RenderUtcNow + 2),
                  DateTimeValue(RenderUtcNow + 3),
                  <<"Original", " ", "title">>, <<"Details">>, <<"HQ">>,
                  <<>>, FALSE)

RenderEventLists ==
    {<<>>, <<Event1>>, <<EventLate, Event1>>, <<Event1, EventTie>>,
     <<EventTie, Event1>>, <<EventLate, EventNoStart>>,
     <<EventNoStart, Event1>>, <<EventOtherShape, EventAllDay>>,
     <<EventBareUid, Event1>>, <<Event1, EventBare>>, <<EventSkip, EventOk>>,
     <<EventUidBreak>>}

RenderResults ==
    {FetchOk(events) : events \in RenderEventLists}
    \cup {FetchFailed(kind) : kind \in FailureKinds \ {"none"}}

RenderCalendars ==
    {<<"calendar.a">>, <<"calendar.a", "calendar.b">>,
     <<"calendar.b", "calendar.a">>}

SeqToSet(seq) == {seq[i] : i \in 1..Len(seq)}

\* The orders in which n fetches can complete.
CompletionOrders(n) ==
    {order \in [1..n -> 1..n] : \A i, j \in 1..n : order[i] = order[j] => i = j}

\* results is what the fetch of each calendar returns, order the order in
\* which the fetches complete.
Call_async_generate_calendar(title, calendars, results, order, utc_now) ==
    /\ call.fn = "none"
    /\ call' = [fn |-> "_async_generate_calendar", title |-> title,
                calendars |-> calendars, results |-> results,
                order |-> order, utc_now |-> utc_now,
                result |-> _async_generate_calendar(title, calendars,
                              ZipResults(calendars,
                                  asyncio_gather(Completions(calendars,
                                                     results, order))),
                              utc_now)]
    /\ UNCHANGED <<platformVars, flowVars, entries, cache, calendarEvents,
                   monotonic, utcnow, requests,
                   last, writes, opCount, requestCount>>

HashTitles == {<<>>, <<"A">>, <<"a">>}
HashCalendars ==
    {<<>>, <<"calendar.a">>, <<"calendar.b">>, <<"calendar.a", "calendar.b">>,
     <<"calendar.b", "calendar.a">>}
HashPastDays == {1, DEFAULT_PAST_DAYS}
HashFutureDays == {1, DEFAULT_FUTURE_DAYS}

Call_hash_config(title, calendars, past_days, future_days) ==
    /\ call.fn = "none"
    /\ call' = [fn |-> "_hash_config", title |-> title,
                calendars |-> calendars, past_days |-> past_days,
                future_days |-> future_days,
                result |-> _hash_config(title, calendars, past_days,
                                        future_days)]
    /\ UNCHANGED <<platformVars, flowVars, entries, cache, calendarEvents,
                   monotonic, utcnow, requests,
                   last, writes, opCount, requestCount>>

\* Backslash, newline, comma, semicolon and an ordinary character.
EscapeAlphabet == {"\\", "\n", ",", ";", "n"}
MaxTextLen == 3
EscapeTexts == UNION {[1..n -> EscapeAlphabet] : n \in 0..MaxTextLen}

Call_escape_value(text) ==
    /\ call.fn = "none"
    /\ call' = [fn |-> "_escape_value", text |-> text,
                result |-> _escape_value(text)]
    /\ UNCHANGED <<platformVars, flowVars, entries, cache, calendarEvents,
                   monotonic, utcnow, requests,
                   last, writes, opCount, requestCount>>

\* _format_event called on its own: all-day events over every pair of days
\* (the day after included), with and without a uid, and timed events.
MaxDay == 3
FormatDays == 0..MaxDay
FormatEvents ==
    {CalendarEvent(DateValue(d), DateValue(e), <<"H">>, <<>>, <<>>, uid, TRUE) :
        d \in FormatDays, e \in FormatDays, uid \in {<<>>, <<"u">>}}
    \cup {Event1, EventLate, EventTie, EventAllDay}
FormatOverrides == {None, Some(<<"O">>)}

Call_format_event(entity_id, event, now, summary_override) ==
    /\ call.fn = "none"
    /\ ~FormatEventRaises(event)
    /\ call' = [fn |-> "_format_event", entity_id |-> entity_id,
                event |-> event, now |-> now,
                summary_override |-> summary_override,
                result |-> _format_event(entity_id, event, now,
                                         summary_override)]
    /\ UNCHANGED <<platformVars, flowVars, entries, cache, calendarEvents,
                   monotonic, utcnow, requests,
                   last, writes, opCount, requestCount>>

\* mask_feed_url called on the URL of a feed: no base URL, a host with a
\* port and a host named ical; secrets of 1, 6, 7 and 9 characters, none of
\* which occurs in a base URL or a slug; a title that gives a slug and one
\* that does not.
BaseUrls == {<<>>, <<"h", "t", "t", "p", ":", "/", "/", "h", "a", ":", "8", "1", "2", "3">>, <<"h", "t", "t", "p", ":", "/", "/", "i", "c", "a", "l">>}
MaskSecrets ==
    {<<"Q">>, <<"Q", "w", "E", "r", "T", "y">>,
     <<"Q", "w", "E", "r", "T", "y", "U">>,
     <<"Z", "x", "-", "_", "0", "a", "B", "9", "Q">>}
MaskTitles == {<<"A">>, <<"?">>}

Call_mask_feed_url(base_url, entry) ==
    /\ call.fn = "none"
    /\ call' = [fn |-> "mask_feed_url", base_url |-> base_url,
                entry |-> entry, url |-> build_feed_url(base_url, entry),
                result |-> mask_feed_url(build_feed_url(base_url, entry)),
                logged |-> log_feed_summary(entry,
                               build_feed_url(base_url, entry), 0),
                diagnostics |-> async_get_config_entry_diagnostics(base_url,
                                                                    entry)]
    /\ UNCHANGED <<platformVars, flowVars, entries, cache, calendarEvents,
                   monotonic, utcnow, requests, last, writes, opCount,
                   requestCount>>

NextHelpers ==
    \/ \E calendars \in RenderCalendars :
          \E results \in [SeqToSet(calendars) -> RenderResults],
             order \in CompletionOrders(Len(calendars)) :
             Call_async_generate_calendar(<<"A">>, calendars, results, order,
                                          RenderUtcNow)
    \/ \E title \in HashTitles, calendars \in HashCalendars,
          past_days \in HashPastDays, future_days \in HashFutureDays :
          Call_hash_config(title, calendars, past_days, future_days)
    \/ \E event \in FormatEvents, summary_override \in FormatOverrides :
          Call_format_event("calendar.a", event, RenderUtcNow,
                            summary_override)
    \/ \E text \in EscapeTexts : Call_escape_value(text)
    \/ \E base_url \in BaseUrls, secret \in MaskSecrets, title \in MaskTitles :
          Call_mask_feed_url(base_url,
              ConfigEntry(<<"1">>, title, secret, <<>>, DEFAULT_PAST_DAYS,
                          DEFAULT_FUTURE_DAYS))

SpecHelpers == Init /\ [][NextHelpers]_vars

(***************************************************************************)
(* Properties.                                                             *)
(***************************************************************************)
\* A step in which a request begins, and the request as that step left it
\* (suspended in the gather, or completed).
IsStartStep == requestCount' = requestCount + 1
Started ==
    IF \E r \in Requests : requests'[r] # requests[r]
    THEN requests'[CHOOSE r \in Requests : requests'[r] # requests[r]]
    ELSE last'

Fingerprint(entry) ==
    _hash_config(entry.title, entry.calendars, entry.past_days,
                 entry.future_days)

Latest(id) == writes[id][Len(writes[id])]

\* C1: a request is answered from the cache exactly when the feed's entry
\* exists, carries the fingerprint of the configuration the request reads
\* and expires strictly after the monotonic time the request reads; the
\* answer is then built from that entry and the cache is left alone, and in
\* every other case the handler goes on to regenerate.
C1_ServedFromCacheIffUsable ==
    [][IsStartStep /\ Started.entry_id # None =>
        LET id == Started.entry_id[1]
            usable == /\ id \in DOMAIN cache
                      /\ cache[id].config_hash = Fingerprint(EntryOf(id))
                      /\ cache[id].expires_at > monotonic
        IN  /\ Started.config_hash = Fingerprint(EntryOf(id))
            /\ usable <=> Started.source = "cache"
            /\ usable =>
                 /\ Started.response.headers.ETag = cache[id].etag
                 /\ Started.response.status = HTTP_OK =>
                        Started.response.body = cache[id].payload
                 /\ cache' = cache
            /\ ~usable =>
                 \/ Started.pc = "fetching"
                 \/ Started.source = "render"
                 \/ Started.outcome \in {"cancelled", "error"}]_vars

\* C1 witness: a request was answered 200 from the cache.
C1_Witness ==
    /\ last.source = "cache"
    /\ last.response.status = HTTP_OK
    /\ last.cached # None

\* C2: get returns the stored entry iff it exists, its fingerprint is the
\* requested one and it is unexpired or allow_expired is set; otherwise
\* nothing, whatever the expiry when the fingerprint differs.
C2_GetCachedFeed ==
    \A id \in EntryIds, allow_expired \in BOOLEAN,
       fp \in {cache[i].config_hash : i \in DOMAIN cache}
              \cup {Fingerprint(entries[i]) : i \in 1..Len(entries)}
              \cup {NoConfigHash} :
        LET got == _get_cached_feed(cache, id, fp, allow_expired, monotonic)
            matches == id \in DOMAIN cache /\ cache[id].config_hash = fp
        IN  /\ (matches /\ (allow_expired \/ cache[id].expires_at > monotonic))
                  => got = Some(cache[id])
            /\ ~(matches /\ (allow_expired \/ cache[id].expires_at > monotonic))
                  => got = None
            /\ ~matches => got = None

\* C2 witness: an entry is stored at the very instant of its expiry while
\* another fingerprint than its own is the current one of its feed.
C2_Witness ==
    \E id \in DOMAIN cache :
        /\ cache[id].expires_at = monotonic
        /\ id \in LoadedIds
        /\ cache[id].config_hash # Fingerprint(EntryOf(id))

\* C3 as claimed: of two consecutive entries written for a feed, identical
\* payloads have equal last_modified.
C3_EqualPayloadEqualLastModified ==
    \A id \in EntryIds :
        (Len(writes[id]) = 2
         /\ writes[id][1].entry.payload = writes[id][2].entry.payload)
        => writes[id][1].entry.last_modified = writes[id][2].entry.last_modified

\* C3 as amended: a regeneration carries last_modified over from the entry
\* its request found in the cache when it began (same fingerprint, expired
\* or not) if the payload is identical to that entry's, and otherwise takes
\* the UTC time of the write; so two consecutive entries with identical
\* payloads have equal last_modified when the later request found the
\* earlier entry.
C3_CarriedOverFromFoundEntry ==
    \A id \in EntryIds :
        writes[id] # <<>> =>
            LET w == Latest(id)
            IN  /\ w.entry.last_modified =
                     IF w.found # None /\ w.found[1].payload = w.entry.payload
                     THEN w.found[1].last_modified
                     ELSE w.now
                /\ (Len(writes[id]) = 2
                    /\ w.found = Some(writes[id][1].entry)
                    /\ w.entry.payload = writes[id][1].entry.payload)
                   => w.entry.last_modified = writes[id][1].entry.last_modified

\* C3 witness: a later second than that of the found entry, an identical
\* payload, and last_modified carried over.
C3_Witness ==
    \E id \in EntryIds :
        /\ Len(writes[id]) = 2
        /\ writes[id][2].found = Some(writes[id][1].entry)
        /\ writes[id][2].entry.payload = writes[id][1].entry.payload
        /\ writes[id][2].now # writes[id][2].entry.last_modified

\* C4 as claimed: two renders of the same title, the same calendars in the
\* same order and the same events from each calendar are byte-identical.
C4_RendersOfUnchangedEventsIdentical ==
    \A id \in EntryIds :
        (Len(writes[id]) = 2
         /\ writes[id][1].title = writes[id][2].title
         /\ writes[id][1].calendars = writes[id][2].calendars
         /\ writes[id][1].returned = writes[id][2].returned)
        => writes[id][1].entry.payload = writes[id][2].entry.payload

\* C5 as claimed: when a request is answered from the cache and the
\* calendars still return what they returned for the stored entry, the
\* stored payload and entity tag are those of a fresh render at that moment.
C5_CachedEqualsFreshRender ==
    [][(IsStartStep /\ Started.source = "cache") =>
        LET id == Started.entry_id[1]
            entry == EntryOf(id)
            entities == _iter_calendar_entities(component, entry.calendars)
            results == [c \in {entities[i] : i \in 1..Len(entities)} |->
                          FetchOk(calendarEvents[c])]
            fresh == _async_generate_calendar(
                        IF entry.title # <<>> THEN entry.title
                        ELSE HOME_ASSISTANT_FEED,
                        entry.calendars, results, utcnow)
        IN  (writes[id] # <<>> /\ Latest(id).entry = cache[id]
             /\ Latest(id).returned = ReturnedEvents(results))
            => /\ cache[id].payload = fresh.payload
               /\ cache[id].etag = _etag_for_payload(fresh.payload)]_vars

\* The cache entries the program holds anywhere: stored, found by a request
\* or written before.
EntriesSeen ==
    {cache[id] : id \in DOMAIN cache}
    \cup {requests[r].cached[1] : r \in {q \in Requests : requests[q].cached # None}}
    \cup UNION {{writes[id][i].entry : i \in 1..Len(writes[id])} : id \in EntryIds}
    \cup (IF last.cached # None THEN {last.cached[1]} ELSE {})

\* C6: every entry's entity tag is the tag of its payload, entries with
\* equal payloads have equal tags, and the ETag of a 200 response is the
\* tag of its body.
C6_EtagIsFunctionOfPayload ==
    /\ \A e \in EntriesSeen : e.etag = _etag_for_payload(e.payload)
    /\ \A e1, e2 \in EntriesSeen : e1.payload = e2.payload => e1.etag = e2.etag
    /\ last.response.status = HTTP_OK =>
          last.response.headers.ETag = _etag_for_payload(last.response.body)

\* C6 witness: two feeds hold entries with one payload, written at
\* different times, and a 200 response was sent.
C6_Witness ==
    /\ last.response.status = HTTP_OK
    /\ \E id1, id2 \in DOMAIN cache :
          /\ id1 # id2
          /\ cache[id1].payload = cache[id2].payload
          /\ cache[id1].expires_at # cache[id2].expires_at

\* A step in which suspended request r completes.
IsFinishStep(r) == requests[r].pc = "fetching" /\ requests'[r].pc = "idle"
\* A step in which some request completes; last' is that request.
IsCompletionStep ==
    \/ \E r \in Requests : IsFinishStep(r)
    \/ IsStartStep /\ requests' = requests

\* The entry whose validators the last response carries: the one found in
\* the cache, or the one the regeneration stored.
ServedEntry ==
    IF last.source = "cache" THEN last.cached[1]
    ELSE Latest(last.entry_id[1]).entry

\* C7 as claimed: when If-None-Match is sent, it alone decides: the
\* response is 304 iff the current entity tag matches it, whatever
\* If-Modified-Since says.
C7_IfNoneMatchAloneDecides ==
    (/\ last.outcome = "response"
     /\ last.headers.if_none_match # None
     /\ last.headers.if_none_match[1] # <<>>)
    => (last.response.status = HTTP_NOT_MODIFIED
        <=> _etag_matches(last.headers.if_none_match[1],
                          last.response.headers.ETag))

\* C8: a response is 304 without a body exactly when the evaluator matches
\* the validators of the served entry and 200 with its payload otherwise;
\* both carry ETag, Last-Modified and Cache-Control of that entry; without
\* conditional headers it is 200 with a body, and with If-None-Match equal
\* to the entity tag it is 304.
C8_ConditionalResponse ==
    last.outcome = "response" =>
        LET e == ServedEntry
            resp == last.response
        IN  /\ resp.headers.ETag = e.etag
            /\ resp.headers.Last_Modified = FormatHttpDate(e.last_modified)
            /\ resp.headers.Cache_Control = CACHE_CONTROL
            /\ _is_not_modified(last.headers, e.etag, e.last_modified)
                  => resp.status = HTTP_NOT_MODIFIED /\ resp.body = <<>>
            /\ ~_is_not_modified(last.headers, e.etag, e.last_modified)
                  => resp.status = HTTP_OK /\ resp.body = e.payload
            /\ last.headers = RequestHeaders(None, None)
                  => resp.status = HTTP_OK /\ resp.body # <<>>
            /\ last.headers.if_none_match = Some(<<Item(FALSE, e.etag)>>)
                  => resp.status = HTTP_NOT_MODIFIED /\ resp.body = <<>>

\* C8 witness: a regeneration answered 304 to If-None-Match equal to the
\* entity tag of the entry it stored.
C8_Witness ==
    /\ last.outcome = "response"
    /\ last.source = "render"
    /\ last.response.status = HTTP_NOT_MODIFIED
    /\ last.headers.if_none_match =
          Some(<<Item(FALSE, last.response.headers.ETag)>>)

\* C9: a request whose If-Modified-Since does not parse is answered as the
\* same request without that header (200 with the document and validators,
\* or 304 only because If-None-Match matches), and the cache is left as a
\* request without the header leaves it.
C9_MalformedIfModifiedSince ==
    [][(/\ IsCompletionStep
        /\ last'.outcome = "response"
        /\ last'.headers.if_modified_since = Some(MalformedDate)) =>
        LET id == last'.entry_id[1]
            e == IF last'.source = "cache" THEN last'.cached[1]
                 ELSE writes'[id][Len(writes'[id])].entry
            inm == last'.headers.if_none_match
            resp == last'.response
        IN  /\ resp = BuildResponse(RequestHeaders(inm, None),
                                    e.payload, e.etag, e.last_modified)
            /\ resp.status \in {HTTP_OK, HTTP_NOT_MODIFIED}
            /\ resp.status = HTTP_NOT_MODIFIED
                  => inm # None /\ _etag_matches(inm[1], e.etag)
            /\ resp.status = HTTP_OK
                  => resp.body = e.payload /\ resp.headers.ETag = e.etag
            /\ last'.source = "cache" => cache' = cache
            /\ last'.source = "render" =>
                  /\ cache' = _set_cached_feed(cache, id, e)
                  /\ e = NewCacheEntry(last'.cached, e.payload,
                                       last'.config_hash, utcnow, monotonic)
       ]_vars

\* C9 witness: a regeneration answered 200 with the document to a request
\* whose only conditional header was a malformed If-Modified-Since.
C9_Witness ==
    /\ last.outcome = "response"
    /\ last.source = "render"
    /\ last.headers = RequestHeaders(None, Some(MalformedDate))
    /\ last.response.status = HTTP_OK
    /\ last.response.body # <<>>

SecretsDistinct ==
    \A i, j \in 1..Len(entries) :
        i # j => entries[i].secret # entries[j].secret

IsRender == call.fn = "_async_generate_calendar"
\* The entities of that render, and whether the fetch of one succeeded.
RenderEntities == _iter_calendar_entities(component, call.calendars)
FetchSucceeded(c) == call.results[c].kind = "ok"
\* The events the successful fetches returned, in entity order, each with
\* its entity.
RenderInput ==
    Flatten([i \in 1..Len(RenderEntities) |->
        IF FetchSucceeded(RenderEntities[i])
        THEN [k \in 1..Len(call.results[RenderEntities[i]].events) |->
                [entity_id |-> RenderEntities[i],
                 event |-> call.results[RenderEntities[i]].events[k]]]
        ELSE <<>>])
\* The indices of the lines of a payload with a given property name.
LinesNamed(payload, name) ==
    {i \in 1..Len(payload) : payload[i][1] = name}
\* The values of those lines, in order.
ValuesNamed(payload, name) ==
    LET picked == [i \in 1..Len(payload) |->
                     IF payload[i][1] = name THEN <<payload[i][2]>> ELSE <<>>]
    IN  Flatten(picked)
\* The UID lines that carry the digest made for an event of entity c.
UidLinesOf(payload, c) ==
    {i \in LinesNamed(payload, "UID") :
        /\ Len(payload[i][2]) >= 2
        /\ payload[i][2][1] = "sha256"
        /\ payload[i][2][2] = c}
\* No fetch was cancelled.
RenderUncancelled ==
    \A c \in DOMAIN call.results : call.results[c].kind # "cancelled"
\* Every returned event has a start attribute or a uid.
RenderWellFormed ==
    \A i \in 1..Len(RenderInput) :
        \/ RenderInput[i].event.start.kind # "missing"
        \/ RenderInput[i].event.uid # <<>>

\* C12: in a render without a cancellation, the render completes; each
\* calendar whose fetch succeeded contributes all its events and each
\* calendar whose fetch failed contributes none, wherever it stands in the
\* list, so that the document is the one rendered had the failed calendars
\* returned no event; the count is the number of event blocks.
C12_FailureIsolation ==
    (IsRender /\ RenderUncancelled /\ RenderWellFormed) =>
        LET payload == call.result.payload
            cleaned == [c \in DOMAIN call.results |->
                          IF FetchSucceeded(c) THEN call.results[c]
                          ELSE FetchOk(<<>>)]
        IN  /\ ~call.result.cancelled
            /\ ~call.result.raised
            /\ Cardinality(LinesNamed(payload, "BEGIN")) = 1 + Len(RenderInput)
            /\ call.result.count = Len(RenderInput)
            /\ \A c \in DOMAIN call.results :
                  Cardinality(UidLinesOf(payload, c)) =
                     Cardinality({i \in 1..Len(RenderInput) :
                                     /\ RenderInput[i].entity_id = c
                                     /\ RenderInput[i].event.uid = <<>>})
            /\ payload = _async_generate_calendar(call.title, call.calendars,
                             cleaned, call.utc_now).payload

\* C12 witness: the first of two calendars failed with an unexpected error
\* and the document holds the two events of the second.
C12_Witness ==
    /\ IsRender
    /\ Len(call.calendars) = 2
    /\ call.results[call.calendars[1]].kind = "error"
    /\ FetchSucceeded(call.calendars[2])
    /\ call.result.count = 2
    /\ Cardinality(UidLinesOf(call.result.payload, call.calendars[2])) = 2

\* C13: when the fetch of any calendar of a request is cancelled, whatever
\* the other fetches returned and wherever the calendar stands in the list,
\* the request ends in that cancellation: it has no response, stores no
\* entry and leaves the cache as it was.
C13_CancellationPropagates ==
    [][\A r \in Requests :
         \A failures \in [FetchedEntities(r) -> FailureKinds] :
            (/\ requests[r].pc = "fetching"
             /\ get_finish(r, failures)
             /\ \E c \in DOMAIN failures : failures[c] = "cancelled")
            => /\ last'.outcome = "cancelled"
               /\ last'.source = "none"
               /\ last'.response = NoResponse
               /\ cache' = cache
               /\ writes' = writes]_vars

\* C13 witness: a request over two calendars ended in a cancellation while
\* the cache holds the entry an earlier request stored for the feed.
C13_Witness ==
    /\ last.outcome = "cancelled"
    /\ Len(last.calendars) = 2
    /\ last.entry_id[1] \in DOMAIN cache
    /\ writes[last.entry_id[1]] # <<>>
    /\ cache[last.entry_id[1]] = Latest(last.entry_id[1]).entry

\* The document the current configuration of feed id renders from the
\* events and at the time of the regeneration that stored the feed's entry.
RenderedNow(id) ==
    LET w == Latest(id)
        entry == EntryOf(id)
    IN  _async_generate_calendar(
            IF entry.title # <<>> THEN entry.title ELSE HOME_ASSISTANT_FEED,
            entry.calendars,
            [c \in DOMAIN w.returned |-> FetchOk(w.returned[c])],
            w.utc_now).payload

\* C14 as claimed: a request is never answered from the cache with a
\* payload rendered from another configuration than the current one: the
\* stored entry was rendered from the current title, day window and
\* calendar list, so its payload is what the current configuration renders.
C14_NoPayloadOfEarlierConfiguration ==
    [][(IsStartStep /\ Started.source = "cache") =>
        LET id == Started.entry_id[1]
        IN  /\ Latest(id).title = EntryOf(id).title
            /\ SeqToSet(Latest(id).calendars) = SeqToSet(EntryOf(id).calendars)
            /\ cache[id].payload = RenderedNow(id)]_vars

\* C14 as amended: a request is answered from the cache only with an entry
\* rendered from a configuration that has the current fingerprint, that is
\* the current title, day window and set of calendars (in any order); a
\* request that finds no entry with the fingerprint of the configuration
\* it reads regenerates.
C14_NoPayloadOfOtherFingerprint ==
    [][(IsStartStep /\ Started.entry_id # None) =>
        LET id == Started.entry_id[1]
            current == Fingerprint(EntryOf(id))
        IN  /\ Started.source = "cache" =>
                  /\ cache[id].config_hash = current
                  /\ Latest(id).entry = cache[id]
                  /\ Latest(id).title = EntryOf(id).title
                  /\ SeqToSet(Latest(id).calendars)
                        = SeqToSet(EntryOf(id).calendars)
                  /\ _hash_config(Latest(id).title, Latest(id).calendars,
                                  cache[id].config_hash[4],
                                  cache[id].config_hash[5]) = current
            /\ (id \notin DOMAIN cache \/ cache[id].config_hash # current)
                  => Started.source # "cache"]_vars

\* C14 witness: a request that began before a change of the configuration
\* stored its entry after the change, and the next request missed it and
\* is regenerating.
C14_Witness ==
    \E r \in Requests :
        /\ requests[r].pc = "fetching"
        /\ requests[r].cached = None
        /\ requests[r].entry_id[1] \in DOMAIN cache
        /\ cache[requests[r].entry_id[1]].config_hash # requests[r].config_hash
        /\ Latest(requests[r].entry_id[1]).title # requests[r].title

\* C15: an entry's expires_at is the monotonic time of its storing plus the
\* TTL and stays as it is for as long as the entry is stored; a request is
\* answered from the cache only while the monotonic clock is strictly below
\* the entry's expires_at, hence less than the TTL after the storing.
C15_ExpiryFixedAtStore ==
    [][/\ \A id \in DOMAIN cache' :
            \/ id \in DOMAIN cache /\ cache'[id] = cache[id]
            \/ /\ IsCompletionStep
               /\ last'.source = "render"
               /\ last'.entry_id = Some(id)
               /\ cache'[id].expires_at = monotonic + _CACHE_TTL
       /\ \A id \in DOMAIN cache :
            cache[id].expires_at <= monotonic + _CACHE_TTL
       /\ (IsStartStep /\ Started.source = "cache") =>
            LET served == Started.cached[1]
            IN  /\ served = cache[Started.entry_id[1]]
                /\ monotonic < served.expires_at
                /\ monotonic - (served.expires_at - _CACHE_TTL) < _CACHE_TTL
      ]_vars

\* C15 witness: a request was answered from the cache at a later monotonic
\* time than that of the storing of the entry, before its expiry.
C15_Witness ==
    /\ last.source = "cache"
    /\ last.cached[1].expires_at - _CACHE_TTL < monotonic
    /\ monotonic < last.cached[1].expires_at
    /\ cache[last.entry_id[1]] = last.cached[1]

\* The call made on its own is a fingerprint computation.
IsHashConfig == call.fn = "_hash_config"
\* Two lists hold the same ids the same number of times.
IsPermutationOf(s, t) ==
    /\ Len(s) = Len(t)
    /\ \A c \in SeqToSet(s) \cup SeqToSet(t) :
          Cardinality({i \in 1..Len(s) : s[i] = c})
             = Cardinality({i \in 1..Len(t) : t[i] = c})

\* C16: the fingerprint of a configuration equals that of every
\* configuration with the same title and day window and a permutation of
\* its calendar list, and differs from that of every configuration with
\* another title, past_days, future_days or set of calendar ids.
C16_FingerprintPermutationInvariant ==
    IsHashConfig =>
        \A title \in HashTitles, calendars \in HashCalendars,
           past_days \in HashPastDays, future_days \in HashFutureDays :
            LET other == _hash_config(title, calendars, past_days, future_days)
            IN  /\ (/\ title = call.title
                    /\ past_days = call.past_days
                    /\ future_days = call.future_days
                    /\ IsPermutationOf(calendars, call.calendars))
                   => other = call.result
                /\ (\/ title # call.title
                    \/ past_days # call.past_days
                    \/ future_days # call.future_days
                    \/ SeqToSet(calendars) # SeqToSet(call.calendars))
                   => other # call.result

\* C16 witness: the fingerprint of a configuration whose two calendars are
\* listed in descending order was computed.
C16_Witness ==
    /\ IsHashConfig
    /\ call.calendars = <<"calendar.b", "calendar.a">>
    /\ call.result = _hash_config(call.title, <<"calendar.a", "calendar.b">>,
                                  call.past_days, call.future_days)
    /\ call.result # _hash_config(call.title, <<"calendar.a">>,
                                  call.past_days, call.future_days)

\* The sort key of the i-th input event of the render: its normalized
\* start, or the render time when the start cannot be normalized.
RenderKey(i) ==
    OrElse(_ensure_datetime(RenderInput[i].event.start), call.utc_now)
\* The place of the i-th input event in an ascending stable order.
RenderRank(i) ==
    1 + Cardinality({j \in 1..Len(RenderInput) :
                        \/ RenderKey(j) < RenderKey(i)
                        \/ RenderKey(j) = RenderKey(i) /\ j < i})
\* The input events in that order.
RenderExpected ==
    [k \in 1..Len(RenderInput) |->
        RenderInput[CHOOSE i \in 1..Len(RenderInput) : RenderRank(i) = k]]
\* The lines of the document between its header and its END line.
RenderBlocks ==
    SubSeq(call.result.payload, 5, Len(call.result.payload) - 1)

\* C17: the event blocks of a document are those of the returned events in
\* ascending order of normalized start, an event whose start cannot be
\* normalized counting as starting at the render time, and events with
\* equal keys in calendar enumeration order and then in the order their
\* calendar returned them; one calendar that returns a later event before
\* an earlier one yields both SUMMARY lines, the earlier event's first.
C17_AscendingStableOrder ==
    (IsRender /\ RenderUncancelled /\ RenderWellFormed) =>
        LET summaries == ValuesNamed(call.result.payload, "SUMMARY")
        IN  /\ RenderBlocks =
                  Flatten([k \in 1..Len(RenderExpected) |->
                      _format_event(RenderExpected[k].entity_id,
                                    RenderExpected[k].event, call.utc_now,
                                    Some(RenderExpected[k].event.summary))])
            /\ Len(summaries) = Len(RenderInput)
            /\ \A k \in 1..Len(summaries) :
                  summaries[k] = _escape_value(RenderExpected[k].event.summary)
            /\ (/\ Len(RenderEntities) = 1
                /\ Len(RenderInput) = 2
                /\ RenderKey(1) > RenderKey(2))
               => summaries = <<_escape_value(RenderInput[2].event.summary),
                                _escape_value(RenderInput[1].event.summary)>>

\* C17 witness: two calendars each returned an event without a start,
\* which were put in calendar order between the earlier and the later
\* event.
C17_Witness ==
    /\ IsRender
    /\ call.calendars = <<"calendar.a", "calendar.b">>
    /\ ValuesNamed(call.result.payload, "SUMMARY")
          = << <<"E">>, <<"N">>, <<"N">>, <<"L">> >>
    /\ ValuesNamed(call.result.payload, "UID")[2][2] = "calendar.a"
    /\ ValuesNamed(call.result.payload, "UID")[3][2] = "calendar.b"

\* The values of the lines whose property name is one of names, in order.
ValuesNamedIn(payload, names) ==
    Flatten([i \in 1..Len(payload) |->
               IF payload[i][1] \in names THEN <<payload[i][2]>> ELSE <<>>])

\* C18 as claimed: the render time that stands in for a start or an end
\* that cannot be normalized is never displayed: the DTSTART of an event
\* without a normalizable start, and the DTEND of an event without a
\* normalizable start and end, is not the render time.
C18_FallbackNeverDisplayed ==
    (IsRender /\ RenderUncancelled /\ RenderWellFormed) =>
        LET starts == ValuesNamedIn(call.result.payload,
                                    {"DTSTART", "DTSTART;VALUE=DATE"})
            ends == ValuesNamedIn(call.result.payload,
                                  {"DTEND", "DTEND;VALUE=DATE"})
            fallback == {_format_datetime(call.utc_now),
                         FormatLocalDate(call.utc_now)}
        IN  \A k \in 1..Len(RenderExpected) :
                LET event == RenderExpected[k].event
                IN  /\ _ensure_datetime(event.start) = None
                          => starts[k] \notin fallback
                    /\ (/\ _ensure_datetime(event.start) = None
                        /\ _ensure_datetime(event.end) = None)
                          => ends[k] \notin fallback

\* C19 as claimed: whatever optional attribute an event lacks, and with its
\* start and end absent or of an unrecognized shape, the render completes
\* and emits a block for every returned event.
C19_MalformedEventRenders ==
    (IsRender /\ RenderUncancelled) =>
        /\ ~call.result.raised
        /\ call.result.count = Len(RenderInput)
        /\ Len(ValuesNamed(call.result.payload, "UID")) = Len(RenderInput)
        /\ Len(ValuesNamed(call.result.payload, "SUMMARY")) = Len(RenderInput)

\* The call made on its own is an escaping.
IsEscape == call.fn = "_escape_value"
\* The two-character escape of a character, or the character itself.
EscapeOf(ch) ==
    IF ch = "\\" THEN <<"\\", "\\">>
    ELSE IF ch = "\n" THEN <<"\\", "n">>
    ELSE IF ch = "," THEN <<"\\", ",">>
    ELSE IF ch = ";" THEN <<"\\", ";">>
    ELSE <<ch>>
RECURSIVE Unescape(_)
\* The text an escaped text stands for: a backslash and the character after
\* it stand for that character, or for a newline when it is n.
Unescape(text) ==
    IF text = <<>> THEN <<>>
    ELSE IF Head(text) = "\\" /\ Len(text) >= 2
         THEN <<IF text[2] = "n" THEN "\n" ELSE text[2]>>
              \o Unescape(SubSeq(text, 3, Len(text)))
    ELSE <<Head(text)>> \o Unescape(Tail(text))
\* The length of the run of backslashes that ends just before position i.
BackslashesBefore(text, i) ==
    Cardinality({k \in 1..(i - 1) : \A m \in k..(i - 1) : text[m] = "\\"})

\* C20: the escaped text is the text with each backslash, newline, comma
\* and semicolon replaced by its two-character escape and nothing escaped
\* twice: unescaping gives the text back, and the escaped text has no raw
\* newline and no comma or semicolon without an escaping backslash before.
C20_EscapeRoundTrip ==
    IsEscape =>
        /\ call.result = Flatten([i \in 1..Len(call.text) |->
                                    EscapeOf(call.text[i])])
        /\ Unescape(call.result) = call.text
        /\ \A i \in 1..Len(call.result) :
              /\ call.result[i] # "\n"
              /\ call.result[i] \in {",", ";"}
                    => BackslashesBefore(call.result, i) % 2 = 1

\* C20 witness: a text with a backslash before an n, and a newline, was
\* escaped.
C20_Witness ==
    /\ IsEscape
    /\ call.text = <<"\\", "n", "\n">>
    /\ call.result = <<"\\", "\\", "n", "\\", "n">>

\* The call made on its own is the formatting of one event.
IsFormatEvent == call.fn = "_format_event"

\* C21: the block of an event flagged all-day whose start and end are
\* dates has its DTSTART and DTEND as VALUE=DATE lines and no other start
\* or end line; their values are the start date and the end date as given,
\* the end not moved, and hold no time of day.
C21_AllDayDatesPassThrough ==
    (/\ IsFormatEvent
     /\ call.event.all_day
     /\ call.event.start.kind = "date"
     /\ call.event.end.kind = "date") =>
        /\ ValuesNamed(call.result, "DTSTART;VALUE=DATE")
              = << <<ToString(call.event.start.t)>> >>
        /\ ValuesNamed(call.result, "DTEND;VALUE=DATE")
              = << <<ToString(call.event.end.t)>> >>
        /\ LinesNamed(call.result, "DTSTART") = {}
        /\ LinesNamed(call.result, "DTEND") = {}
        /\ \A i \in LinesNamed(call.result, "DTSTART;VALUE=DATE")
                    \cup LinesNamed(call.result, "DTEND;VALUE=DATE") :
              /\ call.result[i][2] # _format_datetime(
                     _ensure_datetime(call.event.start)[1])
              /\ \A k \in 1..Len(call.result[i][2]) :
                    call.result[i][2][k] # "Z"

\* C21 witness: an all-day event from day 2 to day 3 was formatted as the
\* dates 2 and 3.
C21_Witness ==
    /\ IsFormatEvent
    /\ call.event.all_day
    /\ call.event.start = DateValue(2)
    /\ call.event.end = DateValue(3)
    /\ ValuesNamed(call.result, "DTSTART;VALUE=DATE") = << <<"2">> >>
    /\ ValuesNamed(call.result, "DTEND;VALUE=DATE") = << <<"3">> >>

\* The call made on its own is the masking of a feed URL.
IsMask == call.fn = "mask_feed_url"

\* C22 as claimed: the masked form of the URL of a feed, whatever the base
\* URL, the secret and the slug, does not contain the secret, and so neither
\* does the logged line nor the feed_url of the diagnostics.
C22_MaskedUrlHidesSecret ==
    IsMask =>
        /\ ~Contains(call.result, call.entry.secret)
        /\ ~Contains(call.logged.masked, call.entry.secret)
        /\ ~Contains(call.diagnostics.feed_url, call.entry.secret)

\* The path parameters with which the view is entered for the URL that
\* build_feed_url gives for an entry under a base URL, or None.
RouteOfFeedUrl(base_url, entry) ==
    MatchRoute(UrlPath(build_feed_url(base_url, entry)))

\* C23: with pairwise distinct secrets, the URL built for a loaded feed,
\* under any base URL, matches the view's route and resolves to that feed;
\* a request for it is not answered 404 and is handled for that feed.
C23_FeedUrlRoundTrip ==
    [][\A i \in 1..Len(entries), base_url \in BaseUrls :
          LET route == RouteOfFeedUrl(base_url, entries[i])
          IN  SecretsDistinct =>
                 /\ route # None
                 /\ route[1].secret = entries[i].secret
                 /\ ResolveEntry(entries, route[1].secret, route[1].feed)
                       = Some(entries[i])
                 /\ (/\ IsStartStep
                     /\ Started.secret = route[1].secret
                     /\ Started.feed = route[1].feed)
                    => /\ Started.outcome # "not_found"
                       /\ Started.response.status # HTTP_NOT_FOUND
                       /\ Started.entry_id = Some(entries[i].entry_id)
      ]_vars

\* C23 witness: of two loaded feeds, the one whose title gives no slug was
\* served at the URL built for it, whose slug is its entry id.
C23_Witness ==
    /\ Len(entries) = 2
    /\ SecretsDistinct
    /\ \E i \in 1..Len(entries), base_url \in BaseUrls :
          /\ slugify(entries[i].title) = UNKNOWN_SLUG
          /\ RouteOfFeedUrl(base_url, entries[i])
                = Some([secret |-> last.secret, feed |-> last.feed])
          /\ last.feed = entries[i].entry_id
          /\ last.entry_id = Some(entries[i].entry_id)
          /\ last.outcome = "response"
          /\ last.response.status = HTTP_OK

\* C24: every step that runs the missing-calendar check for a feed (its
\* setup, the update of its configuration, a registry event for a calendar
\* its listener tracks) leaves the issue <entry_id>_missing_calendar
\* present exactly when one of the calendars the feed then has is not in the
\* entity registry.
C24_IssueIffCalendarMissing ==
    [][\A id \in EntryIds :
          LET issue_id == _build_issue_id(id)
              entry == entries'[CHOOSE i \in 1..Len(entries') :
                                    entries'[i].entry_id = id]
              checked ==
                 \/ id \notin LoadedIds
                 \/ entry # EntryOf(id)
                 \/ /\ registry' # registry
                    /\ id \in DOMAIN listeners
                    /\ listeners[id] \cap ((registry' \ registry)
                                           \cup (registry \ registry')) # {}
          IN  (/\ \E i \in 1..Len(entries') : entries'[i].entry_id = id
               /\ checked)
              => (issue_id \in issues'
                  <=> \E k \in 1..Len(entry.calendars) :
                         entry.calendars[k] \notin registry')
      ]_vars

\* C24 witness: two feeds are loaded; calendar.b is no longer in the
\* registry and the feed over both calendars has its issue, while the feed
\* over calendar.a alone has none.
C24_Witness ==
    /\ Len(entries) = 2
    /\ registry = {"calendar.a"}
    /\ \E i, j \in 1..Len(entries) :
          /\ entries[i].calendars = <<"calendar.a", "calendar.b">>
          /\ entries[j].calendars = <<"calendar.a">>
          /\ issues = {_build_issue_id(entries[i].entry_id)}
          /\ entries[j].entry_id \in DOMAIN listeners

\* The entry with a given id after the step.
EntryAfter(entry_id) ==
    entries'[CHOOSE i \in 1..Len(entries') : entries'[i].entry_id = entry_id]

\* What the two flows do to the secret and leave alone: a confirmed reauth
\* and an options form with regenerate_link give the entry a secret that was
\* generated in this step and that no entry held; an options form without
\* it keeps the secret; the calendars and the title stay, a reauth keeps the
\* day window, and no other entry changes.
RotationChangesOnlySecret ==
    \A id \in EntryIds :
        /\ async_step_reauth_confirm(id) =>
              /\ EntryAfter(id).secret = generate_secret(secretCount')
              /\ secretCount' = secretCount + 1
              /\ \A i \in 1..Len(entries) :
                    entries[i].secret # EntryAfter(id).secret
              /\ EntryAfter(id)
                    = [EntryOf(id) EXCEPT !.secret = EntryAfter(id).secret]
        /\ \A user_input \in UserInputs :
              options_async_step_init(id, user_input) =>
                 /\ user_input.regenerate_link =>
                       /\ EntryAfter(id).secret = generate_secret(secretCount')
                       /\ secretCount' = secretCount + 1
                       /\ \A i \in 1..Len(entries) :
                             entries[i].secret # EntryAfter(id).secret
                 /\ ~user_input.regenerate_link =>
                       /\ EntryAfter(id).secret = EntryOf(id).secret
                       /\ secretCount' = secretCount
                 /\ EntryAfter(id).calendars = EntryOf(id).calendars
                 /\ EntryAfter(id).title = EntryOf(id).title
                 /\ EntryAfter(id).entry_id = id
        /\ (async_step_reauth_confirm(id)
            \/ \E user_input \in UserInputs :
                  options_async_step_init(id, user_input)) =>
              /\ Len(entries') = Len(entries)
              /\ \A i \in 1..Len(entries) :
                    entries[i].entry_id # id => entries'[i] = entries[i]

ScenarioFilter == "Ignore"
ScenarioTitleWord == "Original"
ScenarioReplacement == <<"Rewritten">>
\* A summary matches the filter.
MatchesFilter(summary) ==
    \E k \in 1..Len(summary) : summary[k] = ScenarioFilter
\* The returned events, in document order, without the ones that match.
RenderUnfiltered ==
    LET keep[k \in 0..Len(RenderExpected)] ==
            IF k = 0 THEN <<>>
            ELSE IF MatchesFilter(RenderExpected[k].event.summary)
                 THEN keep[k - 1]
                 ELSE Append(keep[k - 1], RenderExpected[k])
    IN  keep[Len(RenderExpected)]

RenderCompletedIn(order) ==
    _async_generate_calendar(call.title, call.calendars,
        ZipResults(call.calendars,
            asyncio_gather(Completions(call.calendars, call.results, order))),
        call.utc_now)

\* C27: the outcome of a render is the same in whatever order its fetches
\* complete: it is the one determined by the enumeration order of the
\* calendars and by what the fetch of each calendar returned, and in the
\* document every event without a uid carries the digest made with the id
\* of the calendar whose fetch returned it.
C27_CompletionOrderIrrelevant ==
    IsRender =>
        /\ \A order \in CompletionOrders(Len(call.calendars)) :
              RenderCompletedIn(order) = call.result
        /\ call.result = _async_generate_calendar(call.title, call.calendars,
                             call.results, call.utc_now)
        /\ (RenderUncancelled /\ RenderWellFormed) =>
              \A c \in DOMAIN call.results :
                 Cardinality(UidLinesOf(call.result.payload, c)) =
                    Cardinality({i \in 1..Len(RenderInput) :
                                    /\ RenderInput[i].entity_id = c
                                    /\ RenderInput[i].event.uid = <<>>})

\* C27 witness: the fetch of the second calendar completed first and
\* returned two events, the fetch of the first failed after it; the
\* document holds the two events, as the second calendar's.
C27_Witness ==
    /\ IsRender
    /\ call.calendars = <<"calendar.a", "calendar.b">>
    /\ call.order = <<2, 1>>
    /\ call.results["calendar.a"] = FetchFailed("ha_error")
    /\ call.results["calendar.b"] = FetchOk(<<EventLate, Event1>>)
    /\ call.result.count = 2
    /\ Cardinality(UidLinesOf(call.result.payload, "calendar.b")) = 2
    /\ UidLinesOf(call.result.payload, "calendar.a") = {}

\* C28 as claimed: the last_modified of every cache entry written for a
\* feed is greater than or equal to the last_modified of the entry it
\* replaces, over every interleaving of concurrent requests for the feed.
C28_LastModifiedNeverGoesBack ==
    [][\A id \in DOMAIN cache \cap DOMAIN cache' :
          cache'[id].last_modified >= cache[id].last_modified]_vars

\* C29 as claimed: in every reachable state the cache holds entries only
\* for feeds that are loaded: no cache entry exists for a feed id that is
\* absent from the configured entries.
C29_CacheOnlyForLoadedFeeds ==
    DOMAIN cache \subseteq LoadedIds

\* C30: once a secret has been rotated away by the reauth flow or the
\* options flow, every request that starts afterwards with that secret is
\* answered 404 in that step: it is not suspended, it is answered neither
\* 200 nor 304, and it leaves the cache alone, whatever the cache holds.
C30_RotatedSecretIsRevoked ==
    [][IsStartStep /\ Started.secret \in revoked =>
          /\ Started.pc = "done"
          /\ Started.outcome = "not_found"
          /\ Started.response = NotFoundResponse
          /\ cache' = cache]_vars

\* C30 witness: the secret of feed 1 was rotated while a request made with
\* it was suspended in its fetch; that request completed after the rotation
\* and stored its render, which has not expired; a request that started
\* after that with the old secret was answered 404.
C30_Witness ==
    /\ <<"s">> \in revoked
    /\ <<"1">> \in DOMAIN cache
    /\ cache[<<"1">>].expires_at > monotonic
    /\ Latest(<<"1">>).entry = cache[<<"1">>]
    /\ Latest(<<"1">>).secret = <<"s">>
    /\ last.secret = <<"s">>
    /\ last.outcome = "not_found"
    /\ last.response.status = HTTP_NOT_FOUND

\* C31: a request answered from the cache leaves the cache exactly as it
\* was, so a hit does not extend the TTL, and it issues no fetch: it is
\* completed in the step in which it starts.  An entry of the cache only
\* ever becomes the entry a regeneration built, all five fields at once.
C31_HitsReadOnlyWritesWhole ==
    [][/\ (IsStartStep /\ Started.source = "cache") =>
             /\ cache' = cache
             /\ writes' = writes
             /\ requests' = requests
             /\ Started.pc = "done"
       /\ \A id \in DOMAIN cache' :
             (id \notin DOMAIN cache \/ cache'[id] # cache[id]) =>
                /\ writes'[id] # <<>>
                /\ cache'[id] = writes'[id][Len(writes'[id])].entry
                /\ DOMAIN cache'[id] = {"payload", "etag", "last_modified",
                                        "expires_at", "config_hash"}]_vars

\* C31 witness: a request that started at UTC second 1 was answered from
\* the cache with the entry stored at second 0 and monotonic time 0, and the
\* cache still holds that entry, expiring when it did at its store.
C31_Witness ==
    /\ last.outcome = "response"
    /\ last.source = "cache"
    /\ last.utc_now = 1
    /\ last.entry_id # None
    /\ last.entry_id[1] \in DOMAIN cache
    /\ cache[last.entry_id[1]] = last.cached[1]
    /\ cache[last.entry_id[1]].last_modified = 0
    /\ cache[last.entry_id[1]].expires_at = _CACHE_TTL

\* The cache entries of the feeds other than id are the same after the step.
OtherFeedsUnchanged(id) ==
    /\ DOMAIN cache' \ {id} = DOMAIN cache \ {id}
    /\ \A other \in DOMAIN cache \ {id} : cache'[other] = cache[other]

\* Payload p was stored by a regeneration for feed id: a request made with
\* the secret of a configuration of that feed, with its title, calendars
\* and fingerprint.
RenderedFor(id, p) ==
    \E k \in 1..Len(writes'[id]) :
       LET w == writes'[id][k]
       IN  /\ w.entry.payload = p
           /\ \E entry \in CacheConfigs :
                 /\ entry.entry_id = id
                 /\ entry.secret = w.secret
                 /\ entry.title = w.title
                 /\ entry.calendars = w.calendars
                 /\ Fingerprint(entry) = w.entry.config_hash

\* C32: a request resolved to a feed reads the cache entry of that feed
\* only and changes no entry of another feed, a request that resolves to no
\* feed leaves the cache alone, and the payload of a 200 response for a
\* feed is one that a regeneration for that feed stored, although both
\* feeds have the same slug.
C32_CacheConfinedToResolvedFeed ==
    [][/\ IsStartStep =>
             IF Started.entry_id = None THEN cache' = cache
             ELSE /\ OtherFeedsUnchanged(Started.entry_id[1])
                  /\ Started.cached =
                        _get_cached_feed(
                           [id \in DOMAIN cache \cap {Started.entry_id[1]} |->
                               cache[id]],
                           Started.entry_id[1], Started.config_hash, TRUE,
                           monotonic)
       /\ \A r \in Requests :
             IsFinishStep(r) => OtherFeedsUnchanged(requests[r].entry_id[1])
       /\ (IsCompletionStep /\ last'.outcome = "response"
                            /\ last'.response.status = HTTP_OK) =>
             RenderedFor(last'.entry_id[1], last'.response.body)]_vars

\* C32 witness: both feeds are loaded with the same title and each has its
\* own entry in the cache, with different payloads; the last request was
\* answered 200 for feed 2 with the payload of its entry.
C32_Witness ==
    /\ LoadedIds = {<<"1">>, <<"2">>}
    /\ EntryOf(<<"1">>).title = EntryOf(<<"2">>).title
    /\ DOMAIN cache = {<<"1">>, <<"2">>}
    /\ cache[<<"1">>].payload # cache[<<"2">>].payload
    /\ last.outcome = "response"
    /\ last.entry_id = Some(<<"2">>)
    /\ last.response.status = HTTP_OK
    /\ last.response.body = cache[<<"2">>].payload

\* The configured entries of the feeds other than id are the same after the
\* step.
OtherEntriesUnchanged(id) ==
    /\ LoadedIds' \ {id} = LoadedIds \ {id}
    /\ \A other \in LoadedIds \ {id} :
          entries'[CHOOSE i \in 1..Len(entries') :
                      entries'[i].entry_id = other] = EntryOf(other)

\* The cache holds nothing for feed id after the step, and the other feeds
\* keep their cache entries and their configuration.
EvictsOnly(id) ==
    /\ id \notin DOMAIN cache'
    /\ OtherFeedsUnchanged(id)
    /\ OtherEntriesUnchanged(id)

\* C33 as claimed, its second part: once a feed has been unloaded, every
\* later request with its secret is answered 404.
C33_UnloadedSecretNeverServed ==
    [][IsStartStep /\ Started.secret \in unloaded =>
          Started.outcome = "not_found"]_vars

\* C33 as amended: right after the setup, the update and the unload of a
\* feed the cache holds no entry for it, and the cache entries and the
\* configuration of the other feeds are unchanged; the unload removes the
\* feed from the configured entries, and a request that starts with the
\* secret of an unloaded feed is answered 404 for as long as no feed with
\* that secret is loaded.
C33_LifecycleEviction ==
    [][/\ \A entry \in LifecycleConfigs :
             (SetupEntry(entry) \/ UpdateEntry(entry)) =>
                /\ EvictsOnly(entry.entry_id)
                /\ entry.entry_id \in LoadedIds'
       /\ \A id \in EntryIds :
             UnloadEntry(id) => EvictsOnly(id) /\ id \notin LoadedIds'
       /\ (/\ IsStartStep
           /\ Started.secret \in unloaded
           /\ \A i \in 1..Len(entries) : entries[i].secret # Started.secret)
          => /\ Started.outcome = "not_found"
             /\ Started.response = NotFoundResponse
             /\ cache' = cache]_vars

\* C33 witness: feed 1 answered a request and was unloaded, which emptied
\* its cache entry and left feed 2 loaded with its entry; the next request
\* with the secret of feed 1 was answered 404.
C33_Witness ==
    /\ <<"s">> \in unloaded
    /\ LoadedIds = {<<"2">>}
    /\ writes[<<"1">>] # <<>>
    /\ DOMAIN cache = {<<"2">>}
    /\ last.secret = <<"s">>
    /\ last.outcome = "not_found"

\* C34: after every step each feed has at most one active subscription to
\* registry events, namely the listener DATA_LISTENERS holds for it, so
\* every listener that is no longer held has been unsubscribed; a listener
\* is held only for a loaded feed with calendars; an update or an unload of
\* a feed that has a listener ends exactly one subscription; and the
\* callback of a listener, run after its feed was unloaded, leaves the
\* repair issues as they are.
C34_RegistryListeners ==
    [][/\ \A id \in EntryIds :
             /\ tracker'[id].active <= 1
             /\ tracker'[id].active = IF id \in DOMAIN listeners' THEN 1 ELSE 0
             /\ id \in DOMAIN listeners' =>
                   /\ id \in LoadedIds'
                   /\ EntryAfter(id).calendars # <<>>
             /\ (/\ id \in DOMAIN listeners
                 /\ \/ UnloadEntry(id)
                    \/ \E entry \in RepairsConfigs :
                          entry.entry_id = id /\ UpdateEntry(entry))
                => tracker'[id].active =
                      tracker[id].active - 1
                      + (IF id \in DOMAIN listeners' THEN 1 ELSE 0)
             /\ (registry_event_late(id) /\ id \notin LoadedIds) =>
                   issues' = issues]_vars

\* C34 witness: two feeds were set up and feed 1 was unloaded, which
\* unsubscribed its listener; the listener of feed 2 is active; calendar.a,
\* which feed 1 was over, has left the registry since, and there is no issue
\* for feed 1.
C34_Witness ==
    /\ opCount = 3
    /\ LoadedIds = {<<"2">>}
    /\ tracker[<<"1">>] = [active |-> 0, made |-> TRUE]
    /\ <<"1">> \notin DOMAIN listeners
    /\ <<"2">> \in DOMAIN listeners
    /\ tracker[<<"2">>].active = 1
    /\ registry = {"calendar.b"}
    /\ _build_issue_id(<<"1">>) \notin issues

\* The lines of the document of the render: the text between the CRLFs.
DocumentLines == Split(JoinLines(call.result.payload), CRLF, -1)

\* C35 as claimed: whatever the title and the summary, description,
\* location and uid of the events, the document starts with the
\* BEGIN:VCALENDAR header lines, ends with END:VCALENDAR and a CRLF, has one
\* BEGIN:VEVENT and one END:VEVENT line per counted event, and has no line
\* other than the ones written, one per field.
C35_DocumentStructure ==
    (IsRender /\ ~call.result.cancelled /\ ~call.result.raised) =>
        LET payload == call.result.payload
            lines == DocumentLines
            n == Len(payload)
        IN  /\ Len(lines) = n + 1
            /\ lines[Len(lines)] = <<>>
            /\ \A i \in 1..n :
                  i <= Len(lines) =>
                     lines[i] = <<payload[i][1], ":">> \o payload[i][2]
            /\ lines[1] = <<"BEGIN", ":", "VCALENDAR">>
            /\ lines[2] = <<"VERSION", ":", "2.0">>
            /\ lines[Len(lines) - 1] = <<"END", ":", "VCALENDAR">>
            /\ Cardinality({i \in 1..Len(lines) :
                               lines[i] = <<"BEGIN", ":", "VEVENT">>})
                  = call.result.count
            /\ Cardinality({i \in 1..Len(lines) :
                               lines[i] = <<"END", ":", "VEVENT">>})
                  = call.result.count

\* C36 as claimed: in a rendered document every event block has one UID
\* line, which carries the event's own uid when it has one and else the
\* digest of calendar id, start and summary, and no two event blocks carry
\* the same UID.
C36_UidsUnique ==
    (IsRender /\ ~call.result.cancelled /\ ~call.result.raised) =>
        LET payload == call.result.payload
            uids == LinesNamed(payload, "UID")
        IN  /\ Cardinality(uids) = call.result.count
            /\ \A i \in uids :
                  \E k \in 1..Len(RenderInput) :
                     payload[i][2] =
                        IF RenderInput[k].event.uid # <<>>
                        THEN RenderInput[k].event.uid
                        ELSE Sha256Hex(<<RenderInput[k].entity_id, "-">>
                                \o StrValue(RenderInput[k].event.start)
                                \o <<"-">> \o RenderInput[k].event.summary)
            /\ \A i, j \in uids : i # j => payload[i][2] # payload[j][2]

====
